---------------------------- MODULE Spec2Model ----------------------------
(***************************************************************************)
(* A model of core::parallel::DistributedDualtreeTaskQueue                 *)
(* (distributed_dualtree_task_queue.h): the per-process dispatcher of      *)
(* (query subtree, reference subtree) tasks of a distributed dual-tree     *)
(* computation.                                                            *)
(*                                                                         *)
(* Every public method but remaining_global_computation() takes the nested *)
(* OpenMP lock on entry and releases it on exit, so each of them is one    *)
(* atomic action where every call is one of them.  Where the unlocked      *)
(* accessor is used, the threads and the lock are spelled out and every    *)
(* access to remaining_global_computation_ is a step of its own.  The      *)
(* handlers are written as operators over a record of the object's fields  *)
(* (the loops of the source become RECURSIVE operators); the actions apply *)
(* them to the variables.                                                  *)
(*                                                                         *)
(* The collaborators whose code is not in the source tree are modelled     *)
(* from their documented contracts: the tree nodes (begin, count,          *)
(* children, bound), core::parallel::DisjointIntIntervals (Insert),        *)
(* core::parallel::TableExchange (per-cache-id lock counts, FindSubTable,  *)
(* FindByBeginCount, can_terminate) and the task priority queue.           *)
(***************************************************************************)
EXTENDS Integers, Sequences, FiniteSets, Bags, TLC

(***************************************************************************)
(* Bounds of the model.                                                    *)
(***************************************************************************)
\* Longest arrival list handed to one GenerateTasks call.
MaxArrivals == 1
\* Most tasks that are dequeued and whose cache entry is not yet released.
MaxInFlight == 1

(***************************************************************************)
(* The world: one local table of 3 points on rank 0 (the computation is    *)
(* monochromatic: the local reference table is the local query table) and  *)
(* one remote reference subtable held by the exchange under cache id 7.    *)
(*                                                                         *)
(*                 node 1 [0,3)                                            *)
(*                /            \                                           *)
(*        node 2 [0,2)        node 3 [2,3)                                 *)
(*        /        \                                                       *)
(*  node 4 [0,1)  node 5 [1,2)                                             *)
(*                                                                         *)
(* A second local table, of 6 points, stands for a process whose frontier  *)
(* holds several query subtrees that can be split, of equal and of unequal *)
(* size; node 43 is a leaf of two points.  Its points are numbered from 10 *)
(* so that no (begin, count) of one table is a (begin, count) of the       *)
(* other.                                                                  *)
(*                                                                         *)
(*                     node 10 [10,16)                                     *)
(*                    /               \                                    *)
(*        node 20 [10,12)             node 21 [12,16)                      *)
(*        /          \                /             \                      *)
(* node 40 [10,11) node 41 [11,12) node 42 [12,14)  node 43 [14,16)        *)
(*                                 /          \                            *)
(*                       node 84 [12,13)   node 85 [13,14)                 *)
(***************************************************************************)
LocalRank == 0
WideRoot == 10
RemoteRank == 1
LocalNodes == 1..5
\* The nodes of the table of 6 points.
WideNodes == {10, 20, 21, 40, 41, 42, 43, 84, 85}
\* The root of the tree of the remote subtable cached under id 7.
RemoteRoot == 7
Nodes == LocalNodes \cup {RemoteRoot}
NoNode == 0

NodeBegin(n) ==
  CASE n = 1 -> 0 [] n = 2 -> 0 [] n = 3 -> 2 [] n = 4 -> 0 [] n = 5 -> 1
    [] n = RemoteRoot -> 0
    [] n = 10 -> 10 [] n = 20 -> 10 [] n = 21 -> 12 [] n = 40 -> 10
    [] n = 41 -> 11 [] n = 42 -> 12 [] n = 43 -> 14 [] n = 84 -> 12
    [] n = 85 -> 13

NodeCount(n) ==
  CASE n = 1 -> 3 [] n = 2 -> 2 [] n = 3 -> 1 [] n = 4 -> 1 [] n = 5 -> 1
    [] n = RemoteRoot -> 2
    [] n = 10 -> 6 [] n = 20 -> 2 [] n = 21 -> 4 [] n = 40 -> 1 [] n = 41 -> 1
    [] n = 42 -> 2 [] n = 43 -> 2 [] n = 84 -> 1 [] n = 85 -> 1

is_leaf(n) == n \notin {1, 2, 10, 20, 21, 42}
left(n) == 2 * n
right(n) == 2 * n + 1
NodeRank(n) == IF n = RemoteRoot THEN RemoteRank ELSE LocalRank

\* The table a node belongs to, named by the rank that owns it.
NodeTable(n) == NodeRank(n)

(***************************************************************************)
(* Geometry.  Point i of the local table lies at coordinate 2*i on a line, *)
(* the two points of the remote subtable at 8 and 10; a node's bound is    *)
(* the interval spanned by its points.  The coordinates are even so that   *)
(* the midpoint of a squared-distance range is an integer.                 *)
(***************************************************************************)
BoundLo(n) == IF n = RemoteRoot THEN 8 ELSE 2 * NodeBegin(n)
BoundHi(n) == IF n = RemoteRoot THEN 10 ELSE 2 * (NodeBegin(n) + NodeCount(n) - 1)

Abs(x) == IF x < 0 THEN -x ELSE x
Max2(a, b) == IF a < b THEN b ELSE a

\* bound().RangeDistanceSq(metric, other): the least and the greatest
\* squared distance between a point of one bound and a point of the other.
RangeDistanceSq(q, r) ==
  LET gap == Max2(0, Max2(BoundLo(r) - BoundHi(q), BoundLo(q) - BoundHi(r)))
      far == Max2(Abs(BoundHi(r) - BoundLo(q)), Abs(BoundHi(q) - BoundLo(r)))
  IN  [lo |-> gap * gap, hi |-> far * far]

\* Range::mid()
RangeMid(range) == (range.lo + range.hi) \div 2

(***************************************************************************)
(* core::parallel::DisjointIntIntervals: the reference points, per rank,   *)
(* already turned into tasks for one query subtree.  Insert of             *)
(* (rank, lo, hi) returns false when [lo, hi) is already covered and       *)
(* otherwise records it and returns true.                                  *)
(***************************************************************************)
IntervalPoints(interval) ==
  {<<interval[1], p>> : p \in interval[2] .. (interval[3] - 1)}

InsertReturns(intervals, interval) ==
  ~(IntervalPoints(interval) \subseteq intervals)

InsertResult(intervals, interval) ==
  intervals \cup IntervalPoints(interval)

(***************************************************************************)
(* core::parallel::TableExchange, as far as the dispatcher uses it.        *)
(***************************************************************************)
\* Cache id 7 holds the remote subtable; cache id 0 comes with the
\* descriptors of local reference subtrees and names no cached subtable.
LocalCacheId == 0
RemoteCacheId == 7
CacheIds == {LocalCacheId, RemoteCacheId}

\* FindSubTable(cache_id): the root of the cached subtable's tree, or NoNode
\* (NULL) when the cache holds no subtable under that id.
FindSubTable(cache_id) == IF cache_id = RemoteCacheId THEN RemoteRoot ELSE NoNode

\* local_table()->FindByBeginCount(begin, count): the node of the local
\* tree with that begin and count, or NoNode (NULL).  The two local tables
\* share no (begin, count), so one lookup serves both.
FindByBeginCount(begin, count) ==
  LET found == {n \in LocalNodes \cup WideNodes :
                  NodeBegin(n) = begin /\ NodeCount(n) = count}
  IN  IF found = {} THEN NoNode ELSE CHOOSE n \in found : TRUE

\* LockCache(cache_id, num_times) / ReleaseCache(cache_id, num_times)
LockCache(s, cache_id, num_times) ==
  [s EXCEPT !.cache_locks[cache_id] = @ + num_times]

ExchangeReleaseCache(s, cache_id, num_times) ==
  [s EXCEPT !.cache_locks[cache_id] = @ - num_times]

(***************************************************************************)
(* unsigned long.  A counter is stored as the integer r that stands for    *)
(* the 64-bit value r mod 2^64: r >= 0 is the value r itself and r < 0 is  *)
(* the wrapped value 2^64 + r.  Subtraction modulo 2^64 is then plain      *)
(* subtraction, and the value is zero exactly when r = 0.                  *)
(***************************************************************************)
ULongSub(a, b) == a - b
ULongIsZero(a) == a = 0
\* a < b as unsigned long values
ULongLess(a, b) ==
  \/ a >= 0 /\ b >= 0 /\ a < b
  \/ a >= 0 /\ b < 0
  \/ a < 0 /\ b < 0 /\ a < b

(***************************************************************************)
(* The task priority queue of one query subtree: a bag of tasks; top() is  *)
(* a task of the greatest priority (which one of several is up to the      *)
(* queue).                                                                 *)
(***************************************************************************)
HeapSize(heap) == BagCardinality(heap)
HeapPush(heap, task) == heap (+) SetToBag({task})
HeapRemove(heap, task) == heap (-) SetToBag({task})
TopTasks(heap) ==
  {t \in BagToSet(heap) : \A u \in BagToSet(heap) : u.priority <= t.priority}

(***************************************************************************)
(* The private helpers of the dispatcher.  s is the record of its fields.  *)
(***************************************************************************)
\* tasks_[probe_index]->top(): the tasks a DequeueTask may copy to *task_out
\* and pop.
DequeueChoices(heap) == TopTasks(heap)

\* The size of the five parallel arrays; size() reads query_subtrees_.
Size(s) == Len(s.query_subtrees_)

\* NewTask with the midpoint itself as the priority.
NewTask_MidAsPriority(query_node, pair) ==
  [query_start_node |-> query_node,
   reference_table |-> pair[1],
   reference_start_node |-> pair[2],
   cache_id |-> pair[3],
   priority |-> RangeMid(RangeDistanceSq(query_node, pair[2]))]

\* The task PushTask_ makes of a query subtree and a (reference table,
\* reference node, cache id): its priority is the midpoint of the squared
\* distance range, negated.
NewTask(query_node, pair) ==
  [query_start_node |-> query_node,
   reference_table |-> pair[1],
   reference_start_node |-> pair[2],
   cache_id |-> pair[3],
   priority |-> 0 - RangeMid(RangeDistanceSq(query_node, pair[2]))]

\* PushTask_(metric, push_index, reference_table_node_pair); push_index
\* counts from 1 here.
PushTask_(s, push_index, pair) ==
  [s EXCEPT
     !.tasks_[push_index] =
        HeapPush(@, NewTask(s.query_subtrees_[push_index], pair)),
     !.num_remaining_tasks_ = @ + 1]

\* TakeTask without the count-down of num_remaining_tasks_.
TakeTask_NoCountDown(s, probe_index, task, lock_query_subtree_in) ==
  [s EXCEPT
     !.tasks_[probe_index] = HeapRemove(@, task),
     !.query_subtree_locks_[probe_index] = lock_query_subtree_in]

\* The body of both DequeueTask forms once a slot is chosen: top(), pop(),
\* set the lock, count down.
TakeTask(s, probe_index, task, lock_query_subtree_in) ==
  [s EXCEPT
     !.tasks_[probe_index] = HeapRemove(@, task),
     !.query_subtree_locks_[probe_index] = lock_query_subtree_in,
     !.num_remaining_tasks_ = @ - 1]

\* What DequeueTask writes to *task_out; second is the index as the source
\* counts it, from 0.
TaskOut(task, probe_index) == [first |-> task, second |-> probe_index - 1]

\* CanTakeAt without the test of the lock.
CanTakeAt_IgnoreLock(s, probe_index) == HeapSize(s.tasks_[probe_index]) > 0

\* Whether DequeueTask(probe_index, ...) takes a task.
CanTakeAt(s, probe_index) ==
  /\ HeapSize(s.tasks_[probe_index]) > 0
  /\ ~s.query_subtree_locks_[probe_index]

MoveBack(array, probe_index) ==
  SubSeq([array EXCEPT ![probe_index] = array[Len(array)]], 1, Len(array) - 1)

\* Compact leaving the lock entry of probe_index where it is.
Compact_LockStays(s, probe_index) ==
  [s EXCEPT
     !.query_subtrees_ = MoveBack(@, probe_index),
     !.assigned_work_ = MoveBack(@, probe_index),
     !.remaining_work_for_query_subtrees_ = MoveBack(@, probe_index),
     !.query_subtree_locks_ = SubSeq(@, 1, Len(@) - 1),
     !.tasks_ = MoveBack(@, probe_index)]

\* The cleanup branch of the untargeted DequeueTask: the last entry of each
\* array is copied over entry probe_index and the arrays shrink by one.
Compact(s, probe_index) ==
  [s EXCEPT
     !.query_subtrees_ = MoveBack(@, probe_index),
     !.assigned_work_ = MoveBack(@, probe_index),
     !.remaining_work_for_query_subtrees_ = MoveBack(@, probe_index),
     !.query_subtree_locks_ = MoveBack(@, probe_index),
     !.tasks_ = MoveBack(@, probe_index)]

\* DequeueScan without the test of the remaining work: every slot with an
\* empty heap is cleaned up.
RECURSIVE DequeueScan_CleanupWithWorkLeft(_, _)
DequeueScan_CleanupWithWorkLeft(s, probe_index) ==
  IF probe_index > Len(s.tasks_) THEN [s |-> s, found |-> 0]
  ELSE IF HeapSize(s.tasks_[probe_index]) > 0
       THEN IF ~s.query_subtree_locks_[probe_index]
            THEN [s |-> s, found |-> probe_index]
            ELSE DequeueScan_CleanupWithWorkLeft(s, probe_index + 1)
       ELSE DequeueScan_CleanupWithWorkLeft(Compact(s, probe_index), probe_index)

\* The scan of the untargeted DequeueTask from probe_index on: the fields
\* after the cleanups done on the way, and the slot the task is taken from
\* (0: the scan ran off the end).
RECURSIVE DequeueScan(_, _)
DequeueScan(s, probe_index) ==
  IF probe_index > Len(s.tasks_) THEN [s |-> s, found |-> 0]
  ELSE IF HeapSize(s.tasks_[probe_index]) > 0
       THEN IF ~s.query_subtree_locks_[probe_index]
            THEN [s |-> s, found |-> probe_index]
            ELSE DequeueScan(s, probe_index + 1)
       ELSE IF ULongIsZero(s.remaining_work_for_query_subtrees_[probe_index])
            THEN DequeueScan(Compact(s, probe_index), probe_index)
            ELSE DequeueScan(s, probe_index + 1)

\* FindQuerySubtreeIndex_: the first slot whose subtree has that begin and
\* count, from 1; 0 stands for the source's -1.
FindQuerySubtreeIndex_(s, begin, count) ==
  LET hits == {i \in 1 .. Size(s) :
                 /\ NodeBegin(s.query_subtrees_[i]) = begin
                 /\ NodeCount(s.query_subtrees_[i]) = count}
  IN  IF hits = {} THEN 0 ELSE CHOOSE i \in hits : \A j \in hits : i <= j

\* The drain loop of split_subtree_: DequeueTask(subtree_index, &task_pair,
\* false) while the heap holds tasks, collecting the tasks in prev_tasks.  On
\* a locked slot the call takes nothing, the heap stays as it is and the
\* loop does not end: returns is FALSE, with the fields and the tasks as the
\* loop found them.
RECURSIVE DrainTasks(_, _, _)
DrainTasks(s, subtree_index, prev_tasks) ==
  IF HeapSize(s.tasks_[subtree_index]) = 0
  THEN [s |-> s, prev_tasks |-> prev_tasks, returns |-> TRUE]
  ELSE IF ~CanTakeAt(s, subtree_index)
       THEN [s |-> s, prev_tasks |-> prev_tasks, returns |-> FALSE]
       ELSE LET task == CHOOSE t \in DequeueChoices(s.tasks_[subtree_index]) : TRUE
            IN  DrainTasks(TakeTask(s, subtree_index, task, FALSE),
                           subtree_index, Append(prev_tasks, task))

\* What stands for the fields after a call that does not return.
DoesNotReturn == [outcome |-> "does not return"]

\* ReemitTask locking the cache once in both branches.
ReemitTask_LockOnce(s, subtree_index, prev_qnode, task) ==
  LET node == task.reference_start_node
      last == Size(s)
  IN  IF (~is_leaf(node)) /\ prev_qnode = node
      THEN LET left_pair == <<task.reference_table, left(node), task.cache_id>>
               right_pair == <<task.reference_table, right(node), task.cache_id>>
               s1 == PushTask_(s, subtree_index, left_pair)
               s2 == PushTask_(s1, subtree_index, right_pair)
               s3 == PushTask_(s2, last, left_pair)
               s4 == PushTask_(s3, last, right_pair)
           IN  LockCache(s4, task.cache_id, 1)
      ELSE LET pair == <<task.reference_table, node, task.cache_id>>
               s1 == PushTask_(s, subtree_index, pair)
               s2 == PushTask_(s1, last, pair)
           IN  LockCache(s2, task.cache_id, 1)

\* ReemitTask pairing each child of the query subtree with the reference
\* child of its own side only.
ReemitTask_NoCrossPairs(s, subtree_index, prev_qnode, task) ==
  LET node == task.reference_start_node
      last == Size(s)
  IN  IF (~is_leaf(node)) /\ prev_qnode = node
      THEN LET left_pair == <<task.reference_table, left(node), task.cache_id>>
               right_pair == <<task.reference_table, right(node), task.cache_id>>
               s1 == PushTask_(s, subtree_index, left_pair)
               s2 == PushTask_(s1, last, right_pair)
           IN  LockCache(s2, task.cache_id, 1)
      ELSE LET pair == <<task.reference_table, node, task.cache_id>>
               s1 == PushTask_(s, subtree_index, pair)
               s2 == PushTask_(s1, last, pair)
           IN  LockCache(s2, task.cache_id, 1)

\* One round of the re-emission loop of split_subtree_ for a drained task.
ReemitTask(s, subtree_index, prev_qnode, task) ==
  LET node == task.reference_start_node
      last == Size(s)
  IN  IF (~is_leaf(node)) /\ prev_qnode = node
      THEN LET left_pair == <<task.reference_table, left(node), task.cache_id>>
               right_pair == <<task.reference_table, right(node), task.cache_id>>
               s1 == PushTask_(s, subtree_index, left_pair)
               s2 == PushTask_(s1, subtree_index, right_pair)
               s3 == PushTask_(s2, last, left_pair)
               s4 == PushTask_(s3, last, right_pair)
           IN  LockCache(s4, task.cache_id, 3)
      ELSE LET pair == <<task.reference_table, node, task.cache_id>>
               s1 == PushTask_(s, subtree_index, pair)
               s2 == PushTask_(s1, last, pair)
           IN  LockCache(s2, task.cache_id, 1)

RECURSIVE ReemitTasks(_, _, _, _, _)
ReemitTasks(s, subtree_index, prev_qnode, prev_tasks, i) ==
  IF i > Len(prev_tasks) THEN s
  ELSE ReemitTasks(ReemitTask(s, subtree_index, prev_qnode, prev_tasks[i]),
                   subtree_index, prev_qnode, prev_tasks, i + 1)

\* split_subtree_ giving the right child a new, empty interval set.
split_subtree_EmptyAssignedWork(s, subtree_index) ==
  LET prev_qnode == s.query_subtrees_[subtree_index]
      grown == [s EXCEPT
                  !.query_subtrees_ =
                     Append([@ EXCEPT ![subtree_index] = left(prev_qnode)],
                            right(prev_qnode)),
                  !.query_subtree_locks_ = Append(@, FALSE)]
      drained == DrainTasks(grown, subtree_index, <<>>)
      extended == [drained.s EXCEPT
                     !.tasks_ = Append(@, EmptyBag),
                     !.assigned_work_ = Append(@, {}),
                     !.remaining_work_for_query_subtrees_ =
                        Append(@, @[subtree_index])]
  IN  ReemitTasks(extended, subtree_index, prev_qnode, drained.prev_tasks, 1)

\* split_subtree_ leaving the left child with a new, empty interval set.
split_subtree_LeftForgetsAssignedWork(s, subtree_index) ==
  LET prev_qnode == s.query_subtrees_[subtree_index]
      grown == [s EXCEPT
                  !.query_subtrees_ =
                     Append([@ EXCEPT ![subtree_index] = left(prev_qnode)],
                            right(prev_qnode)),
                  !.query_subtree_locks_ = Append(@, FALSE)]
      drained == DrainTasks(grown, subtree_index, <<>>)
      extended == [drained.s EXCEPT
                     !.tasks_ = Append(@, EmptyBag),
                     !.assigned_work_ =
                        Append([@ EXCEPT ![subtree_index] = {}], @[subtree_index]),
                     !.remaining_work_for_query_subtrees_ =
                        Append(@, @[subtree_index])]
  IN  ReemitTasks(extended, subtree_index, prev_qnode, drained.prev_tasks, 1)

\* split_subtree_ giving the right child no remaining work.
split_subtree_RightHasNoWork(s, subtree_index) ==
  LET prev_qnode == s.query_subtrees_[subtree_index]
      grown == [s EXCEPT
                  !.query_subtrees_ =
                     Append([@ EXCEPT ![subtree_index] = left(prev_qnode)],
                            right(prev_qnode)),
                  !.query_subtree_locks_ = Append(@, FALSE)]
      drained == DrainTasks(grown, subtree_index, <<>>)
      extended == [drained.s EXCEPT
                     !.tasks_ = Append(@, EmptyBag),
                     !.assigned_work_ = Append(@, @[subtree_index]),
                     !.remaining_work_for_query_subtrees_ = Append(@, 0)]
  IN  ReemitTasks(extended, subtree_index, prev_qnode, drained.prev_tasks, 1)

\* split_subtree_ from its first statement to the push_back on
\* assigned_work_: the left child is in the slot, the right child and its
\* lock are appended, the heap is drained into prev_tasks, and a new heap and
\* the copy of the interval set are appended.
\* remaining_work_for_query_subtrees_ is still one entry shorter.
SplitBeforeRemainingWork(s, subtree_index) ==
  LET prev_qnode == s.query_subtrees_[subtree_index]
      grown == [s EXCEPT
                  !.query_subtrees_ =
                     Append([@ EXCEPT ![subtree_index] = left(prev_qnode)],
                            right(prev_qnode)),
                  !.query_subtree_locks_ = Append(@, FALSE)]
      drained == DrainTasks(grown, subtree_index, <<>>)
  IN  [s |-> [drained.s EXCEPT
                !.tasks_ = Append(@, EmptyBag),
                !.assigned_work_ = Append(@, @[subtree_index])],
       prev_tasks |-> drained.prev_tasks,
       returns |-> drained.returns]

\* split_subtree_(world, metric, subtree_index)
split_subtree_(s, subtree_index) ==
  LET prev_qnode == s.query_subtrees_[subtree_index]
      before == SplitBeforeRemainingWork(s, subtree_index)
      extended == [before.s EXCEPT
                     !.remaining_work_for_query_subtrees_ =
                        Append(@, @[subtree_index])]
  IN  IF before.returns
      THEN ReemitTasks(extended, subtree_index, prev_qnode,
                       before.prev_tasks, 1)
      ELSE DoesNotReturn

(***************************************************************************)
(* The public methods, as functions of the fields.                         *)
(***************************************************************************)
\* GenerateTasksForSubtable with an Insert that returns its answer and
\* records nothing.
RECURSIVE GenerateTasksForSubtable_NoRecord(_, _, _, _)
GenerateTasksForSubtable_NoRecord(s, interval, pair, j) ==
  IF j > Size(s) THEN s
  ELSE IF InsertReturns(s.assigned_work_[j], interval)
       THEN GenerateTasksForSubtable_NoRecord(
              LockCache(PushTask_(s, j, pair), pair[3], 1), interval, pair, j + 1)
       ELSE GenerateTasksForSubtable_NoRecord(s, interval, pair, j + 1)

\* GenerateTasksForSubtable locking the cache twice for a task.
RECURSIVE GenerateTasksForSubtable_LockTwice(_, _, _, _)
GenerateTasksForSubtable_LockTwice(s, interval, pair, j) ==
  IF j > Size(s) THEN s
  ELSE IF InsertReturns(s.assigned_work_[j], interval)
       THEN LET inserted == [s EXCEPT !.assigned_work_[j] = InsertResult(@, interval)]
                pushed == PushTask_(inserted, j, pair)
            IN  GenerateTasksForSubtable_LockTwice(LockCache(pushed, pair[3], 2),
                                                   interval, pair, j + 1)
       ELSE GenerateTasksForSubtable_LockTwice(s, interval, pair, j + 1)

\* The inner loop of GenerateTasks over the query subtrees, from slot j.
RECURSIVE GenerateTasksForSubtable(_, _, _, _)
GenerateTasksForSubtable(s, interval, pair, j) ==
  IF j > Size(s) THEN s
  ELSE IF InsertReturns(s.assigned_work_[j], interval)
       THEN LET inserted == [s EXCEPT !.assigned_work_[j] = InsertResult(@, interval)]
                pushed == PushTask_(inserted, j, pair)
            IN  GenerateTasksForSubtable(LockCache(pushed, pair[3], 1),
                                         interval, pair, j + 1)
       ELSE GenerateTasksForSubtable(s, interval, pair, j + 1)

\* One round of the outer loop of GenerateTasks: descriptor is
\* (rank, begin, count, cache id).
GenerateTasksForDescriptor(s, descriptor) ==
  LET reference_begin == descriptor[2]
      reference_count == descriptor[3]
      cache_id == descriptor[4]
      frontier_reference_subtable == FindSubTable(cache_id)
      frontier_reference_table ==
        IF frontier_reference_subtable # NoNode
        THEN NodeTable(frontier_reference_subtable) ELSE LocalRank
      reference_starting_node ==
        IF frontier_reference_subtable # NoNode
        THEN frontier_reference_subtable
        ELSE FindByBeginCount(reference_begin, reference_count)
  IN  GenerateTasksForSubtable(
        s,
        <<frontier_reference_table, reference_begin,
          reference_begin + reference_count>>,
        <<frontier_reference_table, reference_starting_node, cache_id>>,
        1)

RECURSIVE GenerateTasksFrom(_, _, _)
GenerateTasksFrom(s, received_subtable_ids, i) ==
  IF i > Len(received_subtable_ids) THEN s
  ELSE GenerateTasksFrom(
         GenerateTasksForDescriptor(s, received_subtable_ids[i]),
         received_subtable_ids, i + 1)

\* GenerateTasks(metric, received_subtable_ids)
GenerateTasks(s, received_subtable_ids) ==
  GenerateTasksFrom(s, received_subtable_ids, 1)

\* can_terminate asking for an empty queue as well.
can_terminate_NoPendingTasks(s, exchange_can_terminate) ==
  /\ ULongIsZero(s.remaining_global_computation_)
  /\ exchange_can_terminate
  /\ s.num_remaining_tasks_ = 0

\* can_terminate(); exchange_can_terminate is what
\* table_exchange_.can_terminate() answers.
can_terminate(s, exchange_can_terminate) ==
  ULongIsZero(s.remaining_global_computation_) /\ exchange_can_terminate

\* push_completed_computation for one query subtree that takes the
\* reference count off every slot.
push_completed_computation_EverySlot(s, begin, count, reference_count_in, quantity_in) ==
  [s EXCEPT
     !.remaining_global_computation_ = ULongSub(@, quantity_in),
     !.remaining_local_computation_ = ULongSub(@, quantity_in),
     !.remaining_work_for_query_subtrees_ =
        [i \in 1 .. Len(@) |-> ULongSub(@[i], reference_count_in)]]

\* push_completed_computation(query_node_id, comm, reference_count_in,
\* quantity_in), for a query_node_id that FindQuerySubtreeIndex_ finds.
push_completed_computation(s, begin, count, reference_count_in, quantity_in) ==
  LET found_index == FindQuerySubtreeIndex_(s, begin, count)
  IN  [s EXCEPT
         !.remaining_global_computation_ = ULongSub(@, quantity_in),
         !.remaining_local_computation_ = ULongSub(@, quantity_in),
         !.remaining_work_for_query_subtrees_[found_index] =
            ULongSub(@, reference_count_in)]

\* push_completed_computation(comm, reference_count_in, quantity_in)
push_completed_computation_all(s, reference_count_in, quantity_in) ==
  [s EXCEPT
     !.remaining_global_computation_ = ULongSub(@, quantity_in),
     !.remaining_local_computation_ = ULongSub(@, quantity_in),
     !.remaining_work_for_query_subtrees_ =
        [i \in 1 .. Len(@) |-> ULongSub(@[i], reference_count_in)]]

\* FindSplitIndex with <= for <: the last of the largest slots.
RECURSIVE FindSplitIndex_LastOfLargest(_, _, _, _)
FindSplitIndex_LastOfLargest(s, i, split_index_query_size, split_index) ==
  IF i > Size(s) THEN split_index
  ELSE IF /\ ~s.query_subtree_locks_[i]
          /\ ~is_leaf(s.query_subtrees_[i])
          /\ HeapSize(s.tasks_[i]) > 0
          /\ split_index_query_size <= NodeCount(s.query_subtrees_[i])
       THEN FindSplitIndex_LastOfLargest(s, i + 1,
                                         NodeCount(s.query_subtrees_[i]), i)
       ELSE FindSplitIndex_LastOfLargest(s, i + 1, split_index_query_size,
                                         split_index)

\* The choice of RedistributeAmongCores: the slot to split, 0 for none.
RECURSIVE FindSplitIndex(_, _, _, _)
FindSplitIndex(s, i, split_index_query_size, split_index) ==
  IF i > Size(s) THEN split_index
  ELSE IF /\ ~s.query_subtree_locks_[i]
          /\ ~is_leaf(s.query_subtrees_[i])
          /\ HeapSize(s.tasks_[i]) > 0
          /\ split_index_query_size < NodeCount(s.query_subtrees_[i])
       THEN FindSplitIndex(s, i + 1, NodeCount(s.query_subtrees_[i]), i)
       ELSE FindSplitIndex(s, i + 1, split_index_query_size, split_index)

\* RedistributeAmongCores that clears the request only when it has split.
RedistributeAmongCores_FlagStaysWithoutSplit(s) ==
  IF s.split_subtree_after_unlocking_
  THEN LET split_index == FindSplitIndex(s, 1, 0, 0)
       IN  IF split_index >= 1
           THEN [split_subtree_(s, split_index)
                   EXCEPT !.split_subtree_after_unlocking_ = FALSE]
           ELSE s
  ELSE s

\* RedistributeAmongCores(world, reference_table_in, metric_in)
RedistributeAmongCores(s) ==
  IF s.split_subtree_after_unlocking_
  THEN LET split_index == FindSplitIndex(s, 1, 0, 0)
           after == IF split_index >= 1 THEN split_subtree_(s, split_index) ELSE s
       IN  [after EXCEPT !.split_subtree_after_unlocking_ = FALSE]
  ELSE s

\* UnlockQuerySubtree(query_subtree_id), for an id that
\* FindQuerySubtreeIndex_ finds.
UnlockQuerySubtree(s, begin, count) ==
  LET subtree_index == FindQuerySubtreeIndex_(s, begin, count)
  IN  [s EXCEPT !.query_subtree_locks_[subtree_index] = FALSE]

(***************************************************************************)
(* Init: the fields after the constructor and Init(world, query_table_in,  *)
(* reference_table_in, num_threads_in), for the frontier that              *)
(* get_frontier_nodes_bounded_by_number returned.                          *)
(***************************************************************************)
Ranks == {LocalRank, RemoteRank}
\* local_n_entries(rank) of the distributed table (the query table and the
\* reference table are the same table).
local_n_entries(rank) == IF rank = LocalRank THEN NodeCount(1) ELSE NodeCount(RemoteRoot)

RECURSIVE SumOver(_, _)
SumOver(set, f) ==
  IF set = {} THEN 0
  ELSE LET x == CHOOSE y \in set : TRUE IN f[x] + SumOver(set \ {x}, f)

total_num_points == SumOver(Ranks, [r \in Ranks |-> local_n_entries(r)])

\* Init that takes the local query points for the query points of all
\* processes.
InitFields_LocalQueryPointsOnly(frontier) ==
  [query_subtrees_ |-> frontier,
   query_subtree_locks_ |-> [i \in 1 .. Len(frontier) |-> FALSE],
   tasks_ |-> [i \in 1 .. Len(frontier) |-> EmptyBag],
   split_subtree_after_unlocking_ |-> FALSE,
   num_remaining_tasks_ |-> 0,
   remaining_global_computation_ |->
     local_n_entries(LocalRank) * total_num_points,
   remaining_local_computation_ |-> local_n_entries(LocalRank) * total_num_points,
   assigned_work_ |-> [i \in 1 .. Len(frontier) |-> {}],
   remaining_work_for_query_subtrees_ |->
     [i \in 1 .. Len(frontier) |-> total_num_points],
   cache_locks |-> [c \in CacheIds |-> 0]]

InitFields(frontier) ==
  [query_subtrees_ |-> frontier,
   query_subtree_locks_ |-> [i \in 1 .. Len(frontier) |-> FALSE],
   tasks_ |-> [i \in 1 .. Len(frontier) |-> EmptyBag],
   split_subtree_after_unlocking_ |-> FALSE,
   num_remaining_tasks_ |-> 0,
   remaining_global_computation_ |-> total_num_points * total_num_points,
   remaining_local_computation_ |-> local_n_entries(LocalRank) * total_num_points,
   assigned_work_ |-> [i \in 1 .. Len(frontier) |-> {}],
   remaining_work_for_query_subtrees_ |->
     [i \in 1 .. Len(frontier) |-> total_num_points],
   cache_locks |-> [c \in CacheIds |-> 0]]

(***************************************************************************)
(* The state: the fields of the dispatcher, the lock counts of its         *)
(* exchange, and what its callers hold.                                    *)
(***************************************************************************)
VARIABLES
  query_subtrees_,                      \* std::vector<TreeType *>
  assigned_work_,                       \* std::vector<DisjointIntIntervals *>
  remaining_work_for_query_subtrees_,   \* std::vector<unsigned long int>
  query_subtree_locks_,                 \* std::deque<bool>
  tasks_,                               \* std::vector<TaskPriorityQueueType *>
  split_subtree_after_unlocking_,       \* bool
  num_remaining_tasks_,                 \* int
  remaining_global_computation_,        \* unsigned long int
  remaining_local_computation_,         \* unsigned long int
  cache_locks,                \* table_exchange_: the lock count of each cache id
  unreleased,                 \* per cache id: tasks dequeued and not yet released
  ret,                        \* what the last call returned to its caller
  task_queue_lock_,           \* omp_nest_lock_t: its owner and nesting depth
  threads,                    \* per thread: where it is in a call of its own
  overwritten                 \* the arrays in front of whose buffer a store fell

fieldVars ==
  <<query_subtrees_, assigned_work_, remaining_work_for_query_subtrees_,
    query_subtree_locks_, tasks_, split_subtree_after_unlocking_,
    num_remaining_tasks_, remaining_global_computation_,
    remaining_local_computation_, cache_locks>>

\* The lock and the threads that call the dispatcher step by step; the
\* calls above them are taken whole, as the lock makes them.
threadVars == <<task_queue_lock_, threads>>

vars == <<fieldVars, unreleased, ret, threadVars, overwritten>>

\* The fields as one record, and the assignment of such a record to them.
Fields ==
  [query_subtrees_ |-> query_subtrees_,
   assigned_work_ |-> assigned_work_,
   remaining_work_for_query_subtrees_ |-> remaining_work_for_query_subtrees_,
   query_subtree_locks_ |-> query_subtree_locks_,
   tasks_ |-> tasks_,
   split_subtree_after_unlocking_ |-> split_subtree_after_unlocking_,
   num_remaining_tasks_ |-> num_remaining_tasks_,
   remaining_global_computation_ |-> remaining_global_computation_,
   remaining_local_computation_ |-> remaining_local_computation_,
   cache_locks |-> cache_locks]

FieldsBecome(s) ==
  /\ query_subtrees_' = s.query_subtrees_
  /\ assigned_work_' = s.assigned_work_
  /\ remaining_work_for_query_subtrees_' = s.remaining_work_for_query_subtrees_
  /\ query_subtree_locks_' = s.query_subtree_locks_
  /\ tasks_' = s.tasks_
  /\ split_subtree_after_unlocking_' = s.split_subtree_after_unlocking_
  /\ num_remaining_tasks_' = s.num_remaining_tasks_
  /\ remaining_global_computation_' = s.remaining_global_computation_
  /\ remaining_local_computation_' = s.remaining_local_computation_
  /\ cache_locks' = s.cache_locks

\* The frontiers get_frontier_nodes_bounded_by_number may return.
Frontiers == {<<1>>, <<2, 3>>}

\* The descriptors (rank, begin, count, cache id) the exchange delivers: the
\* local reference tree and the remote subtable.
Descriptors ==
  {<<LocalRank, NodeBegin(1), NodeCount(1), LocalCacheId>>,
   <<RemoteRank, NodeBegin(RemoteRoot), NodeCount(RemoteRoot), RemoteCacheId>>}

\* The sequences over a set of descriptors of length 1 .. MaxArrivals.
ListsOver(descriptors) ==
  UNION {[1 .. n -> descriptors] : n \in 1 .. MaxArrivals}

ArrivalLists == ListsOver(Descriptors)

\* The reference_count_in callers report to push_completed_computation:
\* all the reference points of the computation at once.
ReferenceCounts == {total_num_points}
\* The quantity_in that goes with a report: the pairs of num_query_points
\* query points with reference_count_in reference points.
QuantityOf(num_query_points, reference_count_in) ==
  num_query_points * reference_count_in

\* *task_out before DequeueTask writes to it.
UnsetTaskOut ==
  [first |-> [query_start_node |-> NoNode, reference_table |-> LocalRank,
              reference_start_node |-> NoNode, cache_id |-> LocalCacheId,
              priority |-> 0],
   second |-> 0 - 1]

NoReturn == [op |-> "void"]

\* The query points of the live query subtrees.
NumLiveQueryPoints ==
  SumOver(1 .. Len(query_subtrees_),
          [i \in 1 .. Len(query_subtrees_) |-> NodeCount(query_subtrees_[i])])

NumUnreleased == SumOver(CacheIds, unreleased)

(***************************************************************************)
(* The threads of the process and task_queue_lock_, an omp_nest_lock_t:    *)
(* the thread that owns it, if any, and how many times that thread has set *)
(* it.                                                                     *)
(***************************************************************************)
Threads == {1, 2}
NoThread == 0

\* A thread outside any call; in a call, pc names the method and the place
\* in it, depth_at_entry is the depth at which the thread held the lock when
\* it entered, loaded and quantity are the locals of a caller that updates
\* a counter through a reference.
IdleThread == [pc |-> "idle", depth_at_entry |-> 0, loaded |-> 0, quantity |-> 0]

\* The depth at which thread t holds the lock.
HeldDepth(lock, t) == IF lock.owner = t THEN lock.depth ELSE 0

\* omp_set_nest_lock by thread t returns when the lock is free or t's own.
CanSetNestLock(lock, t) == lock.owner \in {NoThread, t}
omp_set_nest_lock(lock, t) == [owner |-> t, depth |-> lock.depth + 1]
omp_unset_nest_lock(lock) ==
  [owner |-> IF lock.depth = 1 THEN NoThread ELSE lock.owner,
   depth |-> lock.depth - 1]

Init ==
  /\ \E frontier \in Frontiers : 
       /\ query_subtrees_ = InitFields(frontier).query_subtrees_
       /\ assigned_work_ = InitFields(frontier).assigned_work_
       /\ remaining_work_for_query_subtrees_ =
            InitFields(frontier).remaining_work_for_query_subtrees_
       /\ query_subtree_locks_ = InitFields(frontier).query_subtree_locks_
       /\ tasks_ = InitFields(frontier).tasks_
       /\ split_subtree_after_unlocking_ =
            InitFields(frontier).split_subtree_after_unlocking_
       /\ num_remaining_tasks_ = InitFields(frontier).num_remaining_tasks_
       /\ remaining_global_computation_ =
            InitFields(frontier).remaining_global_computation_
       /\ remaining_local_computation_ =
            InitFields(frontier).remaining_local_computation_
       /\ cache_locks = InitFields(frontier).cache_locks
  /\ unreleased = [c \in CacheIds |-> 0]
  /\ ret = NoReturn
  /\ task_queue_lock_ = [owner |-> NoThread, depth |-> 0]
  /\ overwritten = {}
  /\ threads = [t \in Threads |-> IdleThread]

\* Init for the process whose local table is the table of 6 points.
WideFrontiers == {<<left(WideRoot), right(WideRoot)>>}

WideInitFields(frontier) ==
  LET total_num_reference_points ==
        NodeCount(WideRoot) + local_n_entries(RemoteRank)
  IN  [InitFields(frontier) EXCEPT
         !.remaining_global_computation_ =
            total_num_reference_points * total_num_reference_points,
         !.remaining_local_computation_ =
            NodeCount(WideRoot) * total_num_reference_points,
         !.remaining_work_for_query_subtrees_ =
            [i \in 1 .. Len(frontier) |-> total_num_reference_points]]

InitWide ==
  /\ \E frontier \in WideFrontiers :
       /\ query_subtrees_ = WideInitFields(frontier).query_subtrees_
       /\ assigned_work_ = WideInitFields(frontier).assigned_work_
       /\ remaining_work_for_query_subtrees_ =
            WideInitFields(frontier).remaining_work_for_query_subtrees_
       /\ query_subtree_locks_ = WideInitFields(frontier).query_subtree_locks_
       /\ tasks_ = WideInitFields(frontier).tasks_
       /\ split_subtree_after_unlocking_ =
            WideInitFields(frontier).split_subtree_after_unlocking_
       /\ num_remaining_tasks_ = WideInitFields(frontier).num_remaining_tasks_
       /\ remaining_global_computation_ =
            WideInitFields(frontier).remaining_global_computation_
       /\ remaining_local_computation_ =
            WideInitFields(frontier).remaining_local_computation_
       /\ cache_locks = WideInitFields(frontier).cache_locks
  /\ unreleased = [c \in CacheIds |-> 0]
  /\ ret = NoReturn
  /\ task_queue_lock_ = [owner |-> NoThread, depth |-> 0]
  /\ overwritten = {}
  /\ threads = [t \in Threads |-> IdleThread]

(***************************************************************************)
(* The actions: one per call of a public method.                           *)
(***************************************************************************)
GenerateTasksCall ==
  /\ \E received_subtable_ids \in ArrivalLists :
       /\ FieldsBecome(GenerateTasks(Fields, received_subtable_ids))
       /\ ret' = NoReturn
       /\ UNCHANGED unreleased
  /\ UNCHANGED <<threadVars, overwritten>>

\* DequeueTask(task_out, lock_query_subtree_in)
DequeueTaskCall ==
  /\ \E lock_query_subtree_in \in BOOLEAN :
       /\ NumUnreleased < MaxInFlight
       /\ LET scan == DequeueScan(Fields, 1)
          IN  IF scan.found = 0
              THEN /\ FieldsBecome(scan.s)
                   /\ ret' = [op |-> "DequeueTask", task_out |-> UnsetTaskOut]
                   /\ UNCHANGED unreleased
              ELSE \E task \in DequeueChoices(scan.s.tasks_[scan.found]) :
                     /\ FieldsBecome(TakeTask(scan.s, scan.found, task,
                                              lock_query_subtree_in))
                     /\ ret' = [op |-> "DequeueTask",
                                lock_query_subtree_in |-> lock_query_subtree_in,
                                task_out |-> TaskOut(task, scan.found)]
                     /\ unreleased' = [unreleased EXCEPT ![task.cache_id] = @ + 1]
  /\ UNCHANGED <<threadVars, overwritten>>

\* DequeueTask(probe_index, task_out, lock_query_subtree_in)
DequeueTaskAtCall ==
  /\ \E probe_index \in 1 .. Len(tasks_), lock_query_subtree_in \in BOOLEAN :
       /\ NumUnreleased < MaxInFlight
       /\ IF CanTakeAt(Fields, probe_index)
          THEN \E task \in DequeueChoices(tasks_[probe_index]) :
                 /\ FieldsBecome(TakeTask(Fields, probe_index, task,
                                          lock_query_subtree_in))
                 /\ ret' = [op |-> "DequeueTaskAt",
                            lock_query_subtree_in |-> lock_query_subtree_in,
                            task_out |-> TaskOut(task, probe_index)]
                 /\ unreleased' = [unreleased EXCEPT ![task.cache_id] = @ + 1]
          ELSE /\ ret' = [op |-> "DequeueTaskAt", task_out |-> UnsetTaskOut]
               /\ UNCHANGED <<fieldVars, unreleased>>
  /\ UNCHANGED <<threadVars, overwritten>>

\* ReleaseCache(cache_id, 1), called once for a task that was dequeued.
ReleaseCacheCall ==
  /\ \E cache_id \in CacheIds :
       /\ unreleased[cache_id] > 0
       /\ FieldsBecome(ExchangeReleaseCache(Fields, cache_id, 1))
       /\ unreleased' = [unreleased EXCEPT ![cache_id] = @ - 1]
       /\ ret' = NoReturn
  /\ UNCHANGED <<threadVars, overwritten>>

\* push_completed_computation(query_node_id, comm, reference_count_in,
\* quantity_in) for a live query subtree with work remaining.
PushCompletedComputationCall ==
  /\ \E i \in 1 .. Len(query_subtrees_), reference_count_in \in ReferenceCounts :
       /\ remaining_work_for_query_subtrees_[
            FindQuerySubtreeIndex_(Fields, NodeBegin(query_subtrees_[i]),
                                   NodeCount(query_subtrees_[i]))] > 0
       /\ FieldsBecome(push_completed_computation(
                         Fields, NodeBegin(query_subtrees_[i]),
                         NodeCount(query_subtrees_[i]), reference_count_in,
                         QuantityOf(NodeCount(query_subtrees_[i]),
                                    reference_count_in)))
       /\ ret' = NoReturn
       /\ UNCHANGED unreleased
  /\ UNCHANGED <<threadVars, overwritten>>

\* push_completed_computation(comm, reference_count_in, quantity_in) while
\* every live query subtree has work remaining.
PushCompletedComputationAllCall ==
  /\ \E reference_count_in \in ReferenceCounts :
       /\ \A i \in 1 .. Len(query_subtrees_) :
            remaining_work_for_query_subtrees_[i] > 0
       /\ FieldsBecome(push_completed_computation_all(
                         Fields, reference_count_in,
                         QuantityOf(NumLiveQueryPoints, reference_count_in)))
       /\ ret' = NoReturn
       /\ UNCHANGED unreleased
  /\ UNCHANGED <<threadVars, overwritten>>

\* UnlockQuerySubtree(query_subtree_id) for a live query subtree.
UnlockQuerySubtreeCall ==
  /\ \E i \in 1 .. Len(query_subtrees_) :
       /\ FieldsBecome(UnlockQuerySubtree(Fields, NodeBegin(query_subtrees_[i]),
                                          NodeCount(query_subtrees_[i])))
       /\ ret' = NoReturn
       /\ UNCHANGED unreleased
  /\ UNCHANGED <<threadVars, overwritten>>

\* set_split_subtree_flag()
SetSplitSubtreeFlagCall ==
  /\ split_subtree_after_unlocking_' = TRUE
  /\ ret' = NoReturn
  /\ UNCHANGED <<query_subtrees_, assigned_work_,
                 remaining_work_for_query_subtrees_, query_subtree_locks_,
                 tasks_, num_remaining_tasks_, remaining_global_computation_,
                 remaining_local_computation_, cache_locks, unreleased>>
  /\ UNCHANGED <<threadVars, overwritten>>

RedistributeAmongCoresCall ==
  /\ FieldsBecome(RedistributeAmongCores(Fields))
  /\ ret' = NoReturn
  /\ UNCHANGED unreleased
  /\ UNCHANGED <<threadVars, overwritten>>

\* can_terminate(); table_exchange_.can_terminate() answers
\* exchange_can_terminate.
CanTerminateCall ==
  /\ \E exchange_can_terminate \in BOOLEAN :
       /\ ret' = [op |-> "can_terminate",
                  exchange_can_terminate |-> exchange_can_terminate,
                  result |-> can_terminate(Fields, exchange_can_terminate)]
       /\ UNCHANGED <<fieldVars, unreleased>>
  /\ UNCHANGED <<threadVars, overwritten>>

\* The quantities completed on the other process, as the caller takes them
\* off the counter through the reference remaining_global_computation()
\* returns: the pairs of one or two remote query points with all reference
\* points.
RemoteQuantities ==
  {QuantityOf(n, total_num_points) : n \in 1 .. local_n_entries(RemoteRank)}

\* GenerateTasks for arrival lists in which a local reference subtree may
\* arrive beside the subtree of its parent.
NestedDescriptors ==
  Descriptors \cup {<<LocalRank, NodeBegin(2), NodeCount(2), LocalCacheId>>}

GenerateTasksNestedCall ==
  /\ \E received_subtable_ids \in ListsOver(NestedDescriptors) :
       /\ FieldsBecome(GenerateTasks(Fields, received_subtable_ids))
       /\ ret' = NoReturn
       /\ UNCHANGED unreleased
  /\ UNCHANGED <<threadVars, overwritten>>

(***************************************************************************)
(* Calls with an id FindQuerySubtreeIndex_ does not find.  The handlers    *)
(* use the -1 it returns as an index: remaining_work_for_query_subtrees_   *)
(* [-1] -= reference_count_in on a std::vector, query_subtree_locks_[-1]   *)
(* = false on a std::deque.  That access is undefined behaviour: either    *)
(* it lands in memory outside the arrays and the call returns, or the      *)
(* process is stopped by the fault.  ret records the index used and which  *)
(* of the two happened; no call is made in a process that crashed.  The    *)
(* store that returns on the std::vector has written over what the         *)
(* allocator keeps in front of the buffer: overwritten holds the array,    *)
(* and the call that later frees the buffer may abort.                     *)
(***************************************************************************)
\* What a store at index -1 does at once: it falls in front of the array's
\* buffer and the call goes on, or the process stops.
OutOfBoundsOutcomes == {"returned", "crashed"}

\* overwritten after a store at index -1 of the array field with that
\* outcome: the store that returns has written over what the allocator keeps
\* in front of the buffer.
OverwrittenBy(outcome, field) ==
  IF outcome = "returned" THEN overwritten \cup {field} ELSE overwritten

\* What a call does that frees the buffer of an array of overwritten (a
\* push_back that has to grow it): the allocator takes the block back, or
\* finds it damaged and aborts.
FreeOutcomes == IF overwritten = {} THEN {"returned"} ELSE {"returned", "crashed"}

Crashed == "outcome" \in DOMAIN ret /\ ret.outcome = "crashed"

\* The ids a caller may still hold: those of the query subtrees of the local
\* tree, live or not.
QueryNodeIds == {<<NodeBegin(n), NodeCount(n)>> : n \in LocalNodes}

\* push_completed_computation(query_node_id, ...) with an id that is not
\* found, while the local counter has not wrapped: the counters are taken
\* down before the lookup.
PushCompletedComputationMissCall ==
  /\ \E query_node_id \in QueryNodeIds, reference_count_in \in ReferenceCounts,
        outcome \in OutOfBoundsOutcomes :
       LET quantity_in == QuantityOf(query_node_id[2], reference_count_in)
           found_index ==
             FindQuerySubtreeIndex_(Fields, query_node_id[1], query_node_id[2]) - 1
       IN  /\ found_index = -1
           /\ remaining_local_computation_ >= quantity_in
           /\ remaining_global_computation_' =
                ULongSub(remaining_global_computation_, quantity_in)
           /\ remaining_local_computation_' =
                ULongSub(remaining_local_computation_, quantity_in)
           /\ ret' = [op |-> "push_completed_computation",
                      query_node_id |-> query_node_id,
                      found_index |-> found_index,
                      accessed_index |-> found_index,
                      outcome |-> outcome]
           /\ UNCHANGED <<query_subtrees_, assigned_work_,
                          remaining_work_for_query_subtrees_,
                          query_subtree_locks_, tasks_,
                          split_subtree_after_unlocking_, num_remaining_tasks_,
                          cache_locks, unreleased>>
           /\ overwritten' = OverwrittenBy(outcome,
                                           "remaining_work_for_query_subtrees_")
  /\ UNCHANGED threadVars

\* UnlockQuerySubtree(query_subtree_id) with an id that is not found.
UnlockQuerySubtreeMissCall ==
  /\ \E query_subtree_id \in QueryNodeIds, outcome \in OutOfBoundsOutcomes :
       LET subtree_index ==
             FindQuerySubtreeIndex_(Fields, query_subtree_id[1],
                                    query_subtree_id[2]) - 1
       IN  /\ subtree_index = -1
           /\ ret' = [op |-> "UnlockQuerySubtree",
                      query_node_id |-> query_subtree_id,
                      found_index |-> subtree_index,
                      accessed_index |-> subtree_index,
                      outcome |-> outcome]
           /\ UNCHANGED <<fieldVars, unreleased>>
  /\ UNCHANGED <<threadVars, overwritten>>

(***************************************************************************)
(* GenerateTasks with a descriptor the exchange cannot resolve:            *)
(* FindSubTable(cache_id) is NULL and FindByBeginCount(begin, count) is    *)
(* NULL.  The table falls back to local_table(), the interval is offered   *)
(* to every slot, and for each slot that accepts it PushTask_ calls        *)
(* bound() through the NULL node.  That read is undefined behaviour: the   *)
(* process is stopped by the fault, or the read yields some bound and the  *)
(* task is pushed with a priority computed from it.                        *)
(***************************************************************************)
\* A descriptor of the local table whose begin and count are those of no
\* node of the local tree.
UnresolvedDescriptor ==
  <<LocalRank, NodeBegin(5), NodeCount(5) + NodeCount(3), LocalCacheId>>

\* What the read through the NULL node gives: the fault, or a bound whose
\* squared distance range to the query subtree has the midpoint given.
NullReads == {<<"fault", 0>>, <<"read", 0>>, <<"read", 1>>}

\* The inner loop of GenerateTasks for a NULL reference node, from slot j;
\* null_reads[j] is what the read gives in slot j.
RECURSIVE GenerateTasksForNullNode(_, _, _, _, _)
GenerateTasksForNullNode(s, interval, pair, j, null_reads) ==
  IF j > Size(s) THEN [fields |-> s, outcome |-> "returned"]
  ELSE IF InsertReturns(s.assigned_work_[j], interval)
       THEN LET inserted ==
                  [s EXCEPT !.assigned_work_[j] = InsertResult(@, interval)]
                new_task == [query_start_node |-> s.query_subtrees_[j],
                             reference_table |-> pair[1],
                             reference_start_node |-> pair[2],
                             cache_id |-> pair[3],
                             priority |-> 0 - null_reads[j][2]]
                pushed == [inserted EXCEPT
                             !.tasks_[j] = HeapPush(@, new_task),
                             !.num_remaining_tasks_ = @ + 1]
            IN  IF null_reads[j][1] = "fault"
                THEN [fields |-> inserted, outcome |-> "crashed"]
                ELSE GenerateTasksForNullNode(LockCache(pushed, pair[3], 1),
                                              interval, pair, j + 1, null_reads)
       ELSE GenerateTasksForNullNode(s, interval, pair, j + 1, null_reads)

\* Whether the exchange resolves a descriptor to a node.
Resolves(descriptor) ==
  \/ FindSubTable(descriptor[4]) # NoNode
  \/ FindByBeginCount(descriptor[2], descriptor[3]) # NoNode

\* The outer loop of GenerateTasks from descriptor i, for lists that may
\* hold unresolved descriptors.
RECURSIVE GenerateTasksUnresolvedFrom(_, _, _, _)
GenerateTasksUnresolvedFrom(s, received_subtable_ids, i, null_reads) ==
  IF i > Len(received_subtable_ids) THEN [fields |-> s, outcome |-> "returned"]
  ELSE LET descriptor == received_subtable_ids[i]
       IN  IF Resolves(descriptor)
           THEN GenerateTasksUnresolvedFrom(
                  GenerateTasksForDescriptor(s, descriptor),
                  received_subtable_ids, i + 1, null_reads)
           ELSE LET round ==
                      GenerateTasksForNullNode(
                        s,
                        <<LocalRank, descriptor[2],
                          descriptor[2] + descriptor[3]>>,
                        <<LocalRank, NoNode, descriptor[4]>>,
                        1, null_reads)
                IN  IF round.outcome = "crashed" THEN round
                    ELSE GenerateTasksUnresolvedFrom(
                           round.fields, received_subtable_ids, i + 1,
                           null_reads)

\* The lists with an unresolved descriptor: alone, before or after a
\* descriptor that resolves.
UnresolvedLists ==
  {<<UnresolvedDescriptor>>}
    \cup {<<UnresolvedDescriptor, d>> : d \in Descriptors}
    \cup {<<d, UnresolvedDescriptor>> : d \in Descriptors}

GenerateTasksUnresolvedCall ==
  /\ \E received_subtable_ids \in UnresolvedLists,
        null_reads \in [1 .. Len(query_subtrees_) -> NullReads] :
       LET call == GenerateTasksUnresolvedFrom(Fields, received_subtable_ids, 1,
                                               null_reads)
       IN  /\ FieldsBecome(call.fields)
           /\ ret' = [op |-> "GenerateTasks",
                      received_subtable_ids |-> received_subtable_ids,
                      outcome |-> call.outcome]
           /\ UNCHANGED unreleased
  /\ UNCHANGED <<threadVars, overwritten>>

(***************************************************************************)
(* The calls of the threads, step by step.  A method that sets the lock on *)
(* entry is steps of its thread: the entry, which waits for the lock, and  *)
(* the body up to the return.  The body is one step where it touches only  *)
(* what is touched under the lock.  remaining_global_computation() sets no *)
(* lock and returns a reference to the counter; the caller's  -=  through  *)
(* it is a load and a store, and so is the  -=  on that counter in the     *)
(* body of push_completed_computation, which the lock does not keep apart  *)
(* from them.                                                              *)
(***************************************************************************)
LockedMethods == {"push_completed_computation", "can_terminate"}

\* No thread is inside a call.
LockIsFree == task_queue_lock_.owner = NoThread

\* omp_set_nest_lock(&task_queue_lock_) at the entry of a method.
EnterLockedMethod(t) ==
  \E method \in LockedMethods :
    /\ threads[t].pc = "idle"
    /\ CanSetNestLock(task_queue_lock_, t)
    /\ task_queue_lock_' = omp_set_nest_lock(task_queue_lock_, t)
    /\ threads' = [threads EXCEPT
                     ![t] = [IdleThread EXCEPT
                               !.pc = method,
                               !.depth_at_entry =
                                  HeldDepth(task_queue_lock_, t)]]
    /\ UNCHANGED <<fieldVars, unreleased, ret, overwritten>>

\* The load of  remaining_global_computation_ -= quantity_in  in
\* push_completed_computation(query_node_id, comm, reference_count_in,
\* quantity_in) of thread t, called for query subtree i.
LoadForReport(t, i, reference_count_in) ==
  /\ threads[t].pc = "push_completed_computation"
  /\ threads' =
       [threads EXCEPT
          ![t] = [pc |-> "push_completed_computation: store",
                  depth_at_entry |-> threads[t].depth_at_entry,
                  loaded |-> remaining_global_computation_,
                  quantity |-> QuantityOf(NodeCount(query_subtrees_[i]),
                                          reference_count_in),
                  query_node_id |-> <<NodeBegin(query_subtrees_[i]),
                                      NodeCount(query_subtrees_[i])>>,
                  reference_count_in |-> reference_count_in]]
  /\ UNCHANGED <<fieldVars, unreleased, ret, task_queue_lock_, overwritten>>

\* The load, in a call for a live query subtree that has work left.
PushCompletedComputationLoad(t) ==
  \E i \in 1 .. Len(query_subtrees_), reference_count_in \in ReferenceCounts :
    /\ remaining_work_for_query_subtrees_[i] > 0
    /\ LoadForReport(t, i, reference_count_in)

\* The store of  remaining_global_computation_ -= quantity_in , the rest of
\* the body of push_completed_computation and its omp_unset_nest_lock.
PushCompletedComputationReturn(t) ==
  /\ threads[t].pc = "push_completed_computation: store"
  /\ FieldsBecome(push_completed_computation(
                    [Fields EXCEPT
                       !.remaining_global_computation_ = threads[t].loaded],
                    threads[t].query_node_id[1], threads[t].query_node_id[2],
                    threads[t].reference_count_in, threads[t].quantity))
  /\ task_queue_lock_' = omp_unset_nest_lock(task_queue_lock_)
  /\ threads' = [threads EXCEPT ![t] = IdleThread]
  /\ ret' = NoReturn
  /\ UNCHANGED <<unreleased, overwritten>>

\* The body of can_terminate() and its omp_unset_nest_lock.
CanTerminateReturn(t) ==
  \E exchange_can_terminate \in BOOLEAN :
    /\ threads[t].pc = "can_terminate"
    /\ ret' = [op |-> "can_terminate",
               exchange_can_terminate |-> exchange_can_terminate,
               result |-> can_terminate(Fields, exchange_can_terminate)]
    /\ task_queue_lock_' = omp_unset_nest_lock(task_queue_lock_)
    /\ threads' = [threads EXCEPT ![t] = IdleThread]
    /\ UNCHANGED <<fieldVars, unreleased, overwritten>>

\* remaining_global_computation(): returns the reference, sets no lock.
RemainingGlobalComputationReturn(t) ==
  /\ threads[t].pc = "idle"
  /\ threads' = [threads EXCEPT
                   ![t] = [IdleThread EXCEPT
                             !.pc = "holds_reference",
                             !.depth_at_entry = HeldDepth(task_queue_lock_, t)]]
  /\ UNCHANGED <<fieldVars, unreleased, ret, task_queue_lock_, overwritten>>

\* The load of  remaining_global_computation() -= quantity , while the other
\* process has that much left.
LoadThroughReference(t) ==
  \E quantity \in RemoteQuantities :
    /\ threads[t].pc = "holds_reference"
    /\ ~ULongLess(ULongSub(remaining_global_computation_,
                           remaining_local_computation_), quantity)
    /\ threads' = [threads EXCEPT
                     ![t] = [@ EXCEPT !.pc = "loaded",
                                      !.loaded = remaining_global_computation_,
                                      !.quantity = quantity]]
    /\ UNCHANGED <<fieldVars, unreleased, ret, task_queue_lock_, overwritten>>

\* The store of  remaining_global_computation() -= quantity .
StoreThroughReference(t) ==
  /\ threads[t].pc = "loaded"
  /\ remaining_global_computation_' =
       ULongSub(threads[t].loaded, threads[t].quantity)
  /\ threads' = [threads EXCEPT ![t] = IdleThread]
  /\ ret' = NoReturn
  /\ UNCHANGED <<query_subtrees_, assigned_work_,
                 remaining_work_for_query_subtrees_, query_subtree_locks_,
                 tasks_, split_subtree_after_unlocking_, num_remaining_tasks_,
                 remaining_local_computation_, cache_locks, unreleased,
                 task_queue_lock_, overwritten>>

\* GenerateTasks in the process with the table of 6 points: the local
\* reference tree and the remote subtable.
WideDescriptors ==
  {<<LocalRank, NodeBegin(WideRoot), NodeCount(WideRoot), LocalCacheId>>,
   <<RemoteRank, NodeBegin(RemoteRoot), NodeCount(RemoteRoot), RemoteCacheId>>}

GenerateTasksWideCall ==
  /\ \E received_subtable_ids \in ListsOver(WideDescriptors) :
       FieldsBecome(GenerateTasks(Fields, received_subtable_ids))
  /\ ret' = NoReturn
  /\ UNCHANGED unreleased
  /\ UNCHANGED <<threadVars, overwritten>>

\* The reference counts a caller may report: the size of any reference
\* subtree, whatever was reported before.
ReportedCounts == {NodeCount(n) : n \in Nodes}

\* push_completed_computation(query_node_id, comm, reference_count_in,
\* quantity_in) for a live query subtree and any reference count, as long as
\* the remaining work of that subtree has not wrapped.
ReportCompletedCall ==
  /\ \E i \in 1 .. Len(query_subtrees_), reference_count_in \in ReportedCounts :
       LET begin == NodeBegin(query_subtrees_[i])
           count == NodeCount(query_subtrees_[i])
           quantity_in == QuantityOf(count, reference_count_in)
       IN  /\ remaining_work_for_query_subtrees_[i] >= 0
           /\ FieldsBecome(push_completed_computation(
                             Fields, begin, count, reference_count_in,
                             quantity_in))
           /\ ret' = [op |-> "push_completed_computation",
                      query_node_id |-> <<begin, count>>,
                      reference_count_in |-> reference_count_in,
                      quantity_in |-> quantity_in]
           /\ UNCHANGED unreleased
  /\ UNCHANGED <<threadVars, overwritten>>

\* push_completed_computation(comm, reference_count_in, quantity_in) for any
\* reference count, as long as no remaining work has wrapped.
ReportCompletedAllCall ==
  /\ \E reference_count_in \in ReportedCounts :
       LET quantity_in == QuantityOf(NumLiveQueryPoints, reference_count_in)
       IN  /\ \A i \in 1 .. Len(query_subtrees_) :
                remaining_work_for_query_subtrees_[i] >= 0
           /\ remaining_local_computation_ >= 0
           /\ FieldsBecome(push_completed_computation_all(
                             Fields, reference_count_in, quantity_in))
           /\ ret' = [op |-> "push_completed_computation_all",
                      reference_count_in |-> reference_count_in,
                      quantity_in |-> quantity_in]
           /\ UNCHANGED unreleased
  /\ UNCHANGED <<threadVars, overwritten>>

Next ==
  \/ GenerateTasksCall
  \/ DequeueTaskCall
  \/ DequeueTaskAtCall
  \/ ReleaseCacheCall
  \/ PushCompletedComputationCall
  \/ PushCompletedComputationAllCall
  \/ UnlockQuerySubtreeCall
  \/ SetSplitSubtreeFlagCall
  \/ RedistributeAmongCoresCall

Spec == Init /\ [][Next]_vars

\* The dispatcher fed with nested local reference subtrees: arrivals,
\* dequeues and splits.
NextNested ==
  \/ GenerateTasksNestedCall
  \/ DequeueTaskCall
  \/ ReleaseCacheCall
  \/ SetSplitSubtreeFlagCall
  \/ RedistributeAmongCoresCall

SpecNested == Init /\ [][NextNested]_vars

\* The dispatcher with its work counters and the termination test:
\* arrivals, dequeues and releases while no thread is inside a call, and
\* the threads' reports of completed work, termination tests and updates of
\* the global counter through the reference, in steps.
NextTerminate ==
  \/ LockIsFree /\ GenerateTasksCall
  \/ LockIsFree /\ DequeueTaskCall
  \/ LockIsFree /\ ReleaseCacheCall
  \/ \E t \in Threads : EnterLockedMethod(t)
  \/ \E t \in Threads : PushCompletedComputationLoad(t)
  \/ \E t \in Threads : PushCompletedComputationReturn(t)
  \/ \E t \in Threads : CanTerminateReturn(t)
  \/ \E t \in Threads : RemainingGlobalComputationReturn(t)
  \/ \E t \in Threads : LoadThroughReference(t)
  \/ \E t \in Threads : StoreThroughReference(t)

SpecTerminate == Init /\ [][NextTerminate]_vars

\* The dispatcher whose callers report completed work in any amounts:
\* arrivals, dequeues, reports, the termination test.  Every call is one
\* of the methods that hold the lock from entry to return.
NextReports ==
  \/ GenerateTasksCall
  \/ DequeueTaskCall
  \/ ReleaseCacheCall
  \/ ReportCompletedCall
  \/ ReportCompletedAllCall
  \/ CanTerminateCall

SpecReports == Init /\ [][NextReports]_vars

\* The dispatcher whose callers may name query subtrees that are not live
\* (retired, or never in the frontier), until the process crashes.
NextLookupMiss ==
  \/ ~Crashed /\ GenerateTasksCall
  \/ ~Crashed /\ DequeueTaskCall
  \/ ~Crashed /\ ReleaseCacheCall
  \/ ~Crashed /\ PushCompletedComputationCall
  \/ ~Crashed /\ UnlockQuerySubtreeCall
  \/ ~Crashed /\ PushCompletedComputationMissCall
  \/ ~Crashed /\ UnlockQuerySubtreeMissCall

SpecLookupMiss == Init /\ [][NextLookupMiss]_vars

\* The dispatcher fed with lists that hold an unresolved descriptor, until
\* the process crashes.
NextUnresolved ==
  \/ ~Crashed /\ GenerateTasksUnresolvedCall
  \/ ~Crashed /\ GenerateTasksCall
  \/ ~Crashed /\ DequeueTaskCall
  \/ ~Crashed /\ ReleaseCacheCall

SpecUnresolved == Init /\ [][NextUnresolved]_vars

\* The threads of the process calling the dispatcher, each call in steps:
\* reports and the termination test under the lock, updates of the global
\* counter through the reference.
NextThreads ==
  \E t \in Threads :
    \/ EnterLockedMethod(t)
    \/ PushCompletedComputationLoad(t)
    \/ PushCompletedComputationReturn(t)
    \/ CanTerminateReturn(t)
    \/ RemainingGlobalComputationReturn(t)
    \/ LoadThroughReference(t)
    \/ StoreThroughReference(t)

SpecThreads == Init /\ [][NextThreads]_vars

\* The load, in a call for a live query subtree and any reference count, as
\* long as the remaining work of that subtree has not wrapped.
ReportCompletedLoad(t) ==
  \E i \in 1 .. Len(query_subtrees_), reference_count_in \in ReportedCounts :
    /\ remaining_work_for_query_subtrees_[i] >= 0
    /\ LoadForReport(t, i, reference_count_in)

\* The threads of a process whose callers report completed work in any
\* amounts, each call in steps; no subtable arrives.
NextThreadReports ==
  \E t \in Threads :
    \/ EnterLockedMethod(t)
    \/ ReportCompletedLoad(t)
    \/ PushCompletedComputationReturn(t)
    \/ CanTerminateReturn(t)
    \/ RemainingGlobalComputationReturn(t)
    \/ LoadThroughReference(t)
    \/ StoreThroughReference(t)

SpecThreadReports == Init /\ [][NextThreadReports]_vars

\* The dispatcher of the process with the table of 6 points: reference
\* subtables arrive, tasks are dequeued with and without the subtree lock,
\* subtrees are unlocked and split.
NextSplit ==
  \/ GenerateTasksWideCall
  \/ DequeueTaskCall
  \/ ReleaseCacheCall
  \/ UnlockQuerySubtreeCall
  \/ SetSplitSubtreeFlagCall
  \/ RedistributeAmongCoresCall

SpecSplit == InitWide /\ [][NextSplit]_vars

(***************************************************************************)
(* A run of one process (world.size() = 1) with its worker threads.  The   *)
(* communicating thread hands every reference subtable of the local table  *)
(* to GenerateTasks once (SendReceive); each worker repeats: can_terminate,*)
(* the untargeted DequeueTask, push_completed_computation for the task it  *)
(* got, ReleaseCache, UnlockQuerySubtree if it locked, and now and then    *)
(* set_split_subtree_flag and RedistributeAmongCores.  Every call holds    *)
(* task_queue_lock_ from its first statement to its last, so a call is one *)
(* step, and the lock is free between the steps.                           *)
(***************************************************************************)
Communicator == 3

\* The fields after Init in a world of one process: the reference points
\* are those of the local table.
SingleInitFields(frontier) ==
  LET total_num_reference_points == local_n_entries(LocalRank)
  IN  [InitFields(frontier) EXCEPT
         !.remaining_global_computation_ =
            local_n_entries(LocalRank) * total_num_reference_points,
         !.remaining_local_computation_ =
            local_n_entries(LocalRank) * total_num_reference_points,
         !.remaining_work_for_query_subtrees_ =
            [i \in 1 .. Len(frontier) |-> total_num_reference_points]]

\* The descriptor of the local reference subtree under node n.
LocalDescriptor(n) == <<LocalRank, NodeBegin(n), NodeCount(n), LocalCacheId>>

\* The ways the local reference table arrives: whole, or as the subtables
\* of the two children of its root.
SubtablePlans ==
  {{LocalDescriptor(1)}, {LocalDescriptor(left(1)), LocalDescriptor(right(1))}}

\* A worker at the top of its loop, holding no task.
StartingWorker ==
  [pc |-> "can_terminate", task_out |-> UnsetTaskOut,
   lock_query_subtree_in |-> FALSE]

\* How a worker goes on after an iteration: to the top of the loop, or
\* first to a request for a split.
NextIterations == {"can_terminate", "set_split_subtree_flag"}

InitWorkers ==
  /\ \E frontier \in Frontiers :
       /\ query_subtrees_ = SingleInitFields(frontier).query_subtrees_
       /\ assigned_work_ = SingleInitFields(frontier).assigned_work_
       /\ remaining_work_for_query_subtrees_ =
            SingleInitFields(frontier).remaining_work_for_query_subtrees_
       /\ query_subtree_locks_ = SingleInitFields(frontier).query_subtree_locks_
       /\ tasks_ = SingleInitFields(frontier).tasks_
       /\ split_subtree_after_unlocking_ =
            SingleInitFields(frontier).split_subtree_after_unlocking_
       /\ num_remaining_tasks_ = SingleInitFields(frontier).num_remaining_tasks_
       /\ remaining_global_computation_ =
            SingleInitFields(frontier).remaining_global_computation_
       /\ remaining_local_computation_ =
            SingleInitFields(frontier).remaining_local_computation_
       /\ cache_locks = SingleInitFields(frontier).cache_locks
  /\ unreleased = [c \in CacheIds |-> 0]
  /\ ret = NoReturn
  /\ task_queue_lock_ = [owner |-> NoThread, depth |-> 0]
  /\ overwritten = {}
  /\ \E plan \in SubtablePlans :
       threads = [t \in Threads \cup {Communicator} |->
                    IF t = Communicator
                    THEN [pc |-> "SendReceive", to_receive |-> plan]
                    ELSE StartingWorker]

\* table_exchange_.can_terminate(): nothing is left to receive.
ExchangeCanTerminate == threads[Communicator].to_receive = {}

\* SendReceive: a subtable has arrived and goes to GenerateTasks.
SendReceiveCall ==
  /\ \E descriptor \in threads[Communicator].to_receive :
       /\ FieldsBecome(GenerateTasks(Fields, <<descriptor>>))
       /\ threads' = [threads EXCEPT ![Communicator].to_receive = @ \ {descriptor}]
  /\ ret' = NoReturn
  /\ UNCHANGED <<unreleased, task_queue_lock_, overwritten>>

\* The loop test of worker t: can_terminate().
WorkerCanTerminate(t) ==
  /\ threads[t].pc = "can_terminate"
  /\ LET result == can_terminate(Fields, ExchangeCanTerminate)
     IN  /\ ret' = [op |-> "can_terminate",
                    exchange_can_terminate |-> ExchangeCanTerminate,
                    result |-> result]
         /\ threads' = [threads EXCEPT
                          ![t].pc = IF result THEN "exited" ELSE "DequeueTask"]
  /\ UNCHANGED <<fieldVars, unreleased, task_queue_lock_, overwritten>>

\* DequeueTask(&task_out, lock_query_subtree_in) by worker t, with
\* lock_query_subtree_in one of lock_choices.
WorkerDequeueTask(t, lock_choices) ==
  /\ threads[t].pc = "DequeueTask"
  /\ \E lock_query_subtree_in \in lock_choices, next \in NextIterations :
       LET scan == DequeueScan(Fields, 1)
       IN  IF scan.found = 0
           THEN /\ FieldsBecome(scan.s)
                /\ ret' = [op |-> "DequeueTask", task_out |-> UnsetTaskOut]
                /\ threads' = [threads EXCEPT ![t].pc = next]
                /\ UNCHANGED unreleased
           ELSE \E task \in DequeueChoices(scan.s.tasks_[scan.found]) :
                  /\ FieldsBecome(TakeTask(scan.s, scan.found, task,
                                           lock_query_subtree_in))
                  /\ ret' = [op |-> "DequeueTask",
                             lock_query_subtree_in |-> lock_query_subtree_in,
                             task_out |-> TaskOut(task, scan.found)]
                  /\ threads' =
                       [threads EXCEPT
                          ![t] = [pc |-> "push_completed_computation",
                                  task_out |-> TaskOut(task, scan.found),
                                  lock_query_subtree_in |-> lock_query_subtree_in]]
                  /\ unreleased' = [unreleased EXCEPT ![task.cache_id] = @ + 1]
  /\ UNCHANGED <<task_queue_lock_, overwritten>>

\* The id (begin, count) of the query subtree of the task worker t holds.
HeldQueryNodeId(t) ==
  <<NodeBegin(threads[t].task_out.first.query_start_node),
    NodeCount(threads[t].task_out.first.query_start_node)>>

\* push_completed_computation(query_node_id, comm, reference_count_in,
\* quantity_in) by worker t for the task it holds: the reference count of
\* the task's reference node, and the pairs of its query points with them.
\* The counters go down before the lookup; when the lookup finds nothing the
\* index -1 is used, and the store that returns leaves
\* remaining_work_for_query_subtrees_ in overwritten.
WorkerPushCompletedComputation(t) ==
  /\ threads[t].pc = "push_completed_computation"
  /\ LET query_node_id == HeldQueryNodeId(t)
         reference_count_in ==
           NodeCount(threads[t].task_out.first.reference_start_node)
         quantity_in == QuantityOf(query_node_id[2], reference_count_in)
         found_index ==
           FindQuerySubtreeIndex_(Fields, query_node_id[1], query_node_id[2]) - 1
     IN  IF found_index >= 0
         THEN /\ FieldsBecome(push_completed_computation(
                                Fields, query_node_id[1], query_node_id[2],
                                reference_count_in, quantity_in))
              /\ ret' = [op |-> "push_completed_computation",
                         query_node_id |-> query_node_id,
                         found_index |-> found_index,
                         outcome |-> "returned"]
              /\ threads' = [threads EXCEPT ![t].pc = "ReleaseCache"]
              /\ UNCHANGED overwritten
         ELSE \E outcome \in OutOfBoundsOutcomes :
                /\ remaining_global_computation_' =
                     ULongSub(remaining_global_computation_, quantity_in)
                /\ remaining_local_computation_' =
                     ULongSub(remaining_local_computation_, quantity_in)
                /\ ret' = [op |-> "push_completed_computation",
                           query_node_id |-> query_node_id,
                           found_index |-> found_index,
                           outcome |-> outcome]
                /\ threads' = [threads EXCEPT ![t].pc = "ReleaseCache"]
                /\ overwritten' =
                     OverwrittenBy(outcome,
                                   "remaining_work_for_query_subtrees_")
                /\ UNCHANGED <<query_subtrees_, assigned_work_,
                               remaining_work_for_query_subtrees_,
                               query_subtree_locks_, tasks_,
                               split_subtree_after_unlocking_,
                               num_remaining_tasks_, cache_locks>>
  /\ UNCHANGED <<unreleased, task_queue_lock_>>

\* ReleaseCache(cache_id, 1) by worker t for the task it holds.
WorkerReleaseCache(t) ==
  /\ threads[t].pc = "ReleaseCache"
  /\ FieldsBecome(ExchangeReleaseCache(Fields,
                                       threads[t].task_out.first.cache_id, 1))
  /\ unreleased' = [unreleased EXCEPT
                      ![threads[t].task_out.first.cache_id] = @ - 1]
  /\ ret' = NoReturn
  /\ IF threads[t].lock_query_subtree_in
     THEN threads' = [threads EXCEPT ![t].pc = "UnlockQuerySubtree"]
     ELSE \E next \in NextIterations :
            threads' = [threads EXCEPT ![t] = [StartingWorker EXCEPT !.pc = next]]
  /\ UNCHANGED <<task_queue_lock_, overwritten>>

\* UnlockQuerySubtree(query_subtree_id) by worker t for the subtree it
\* locked; when the lookup finds nothing the index -1 is used.
WorkerUnlockQuerySubtree(t) ==
  /\ threads[t].pc = "UnlockQuerySubtree"
  /\ \E next \in NextIterations :
       threads' = [threads EXCEPT ![t] = [StartingWorker EXCEPT !.pc = next]]
  /\ LET query_subtree_id == HeldQueryNodeId(t)
         subtree_index ==
           FindQuerySubtreeIndex_(Fields, query_subtree_id[1],
                                  query_subtree_id[2]) - 1
     IN  IF subtree_index >= 0
         THEN /\ FieldsBecome(UnlockQuerySubtree(Fields, query_subtree_id[1],
                                                 query_subtree_id[2]))
              /\ ret' = [op |-> "UnlockQuerySubtree",
                         query_node_id |-> query_subtree_id,
                         found_index |-> subtree_index,
                         outcome |-> "returned"]
         ELSE \E outcome \in OutOfBoundsOutcomes :
                /\ ret' = [op |-> "UnlockQuerySubtree",
                           query_node_id |-> query_subtree_id,
                           found_index |-> subtree_index,
                           outcome |-> outcome]
                /\ UNCHANGED fieldVars
  /\ UNCHANGED <<unreleased, task_queue_lock_, overwritten>>

\* set_split_subtree_flag() by worker t.
WorkerSetSplitSubtreeFlag(t) ==
  /\ threads[t].pc = "set_split_subtree_flag"
  /\ split_subtree_after_unlocking_' = TRUE
  /\ threads' = [threads EXCEPT ![t].pc = "RedistributeAmongCores"]
  /\ ret' = NoReturn
  /\ UNCHANGED <<query_subtrees_, assigned_work_,
                 remaining_work_for_query_subtrees_, query_subtree_locks_,
                 tasks_, num_remaining_tasks_, remaining_global_computation_,
                 remaining_local_computation_, cache_locks, unreleased,
                 task_queue_lock_, overwritten>>

\* RedistributeAmongCores(world, reference_table_in, metric_in) by worker t.
\* A call that splits a subtree grows every array by push_back; where it
\* frees the buffer of an array of overwritten the outcome is one of
\* FreeOutcomes, and a buffer that was freed is overwritten no more.  The
\* only array of overwritten is remaining_work_for_query_subtrees_, so the
\* call that stops does so inside split_subtree_ at the push_back on that
\* array: the statements before it have acted, the array itself and
\* split_subtree_after_unlocking_ are as they were.
WorkerRedistributeAmongCores(t) ==
  /\ threads[t].pc = "RedistributeAmongCores"
  /\ LET split_index == FindSplitIndex(Fields, 1, 0, 0)
         splits == split_subtree_after_unlocking_ /\ split_index >= 1
     IN  \E outcome \in IF splits THEN FreeOutcomes ELSE {"returned"} :
           IF outcome = "returned"
           THEN /\ FieldsBecome(RedistributeAmongCores(Fields))
                /\ threads' = [threads EXCEPT ![t].pc = "can_terminate"]
                /\ ret' = NoReturn
                /\ overwritten' \in
                     IF splits THEN {overwritten, {}} ELSE {overwritten}
           ELSE /\ FieldsBecome(SplitBeforeRemainingWork(Fields, split_index).s)
                /\ ret' = [op |-> "RedistributeAmongCores",
                           outcome |-> outcome]
                /\ UNCHANGED <<threads, overwritten>>
  /\ UNCHANGED <<unreleased, task_queue_lock_>>

\* The workers dequeue with or without the subtree lock.  No call is made
\* in a process that crashed.
NextWorkers ==
  \/ ~Crashed /\ SendReceiveCall
  \/ ~Crashed /\ \E t \in Threads : WorkerCanTerminate(t)
  \/ ~Crashed /\ \E t \in Threads : WorkerDequeueTask(t, BOOLEAN)
  \/ ~Crashed /\ \E t \in Threads : WorkerPushCompletedComputation(t)
  \/ ~Crashed /\ \E t \in Threads : WorkerReleaseCache(t)
  \/ ~Crashed /\ \E t \in Threads : WorkerUnlockQuerySubtree(t)
  \/ ~Crashed /\ \E t \in Threads : WorkerSetSplitSubtreeFlag(t)
  \/ ~Crashed /\ \E t \in Threads : WorkerRedistributeAmongCores(t)

SpecWorkers == InitWorkers /\ [][NextWorkers]_vars

\* A call of worker t, other than RedistributeAmongCores, when it always
\* dequeues with the subtree lock.
LockingWorkerStep(t) ==
  /\ ~Crashed
  /\ \/ WorkerCanTerminate(t)
     \/ WorkerDequeueTask(t, {TRUE})
     \/ WorkerPushCompletedComputation(t)
     \/ WorkerReleaseCache(t)
     \/ WorkerUnlockQuerySubtree(t)
     \/ WorkerSetSplitSubtreeFlag(t)

\* The workers always dequeue with the subtree lock.
NextLockingWorkers ==
  \/ ~Crashed /\ SendReceiveCall
  \/ ~Crashed /\ \E t \in Threads : WorkerCanTerminate(t)
  \/ ~Crashed /\ \E t \in Threads : WorkerDequeueTask(t, {TRUE})
  \/ ~Crashed /\ \E t \in Threads : WorkerPushCompletedComputation(t)
  \/ ~Crashed /\ \E t \in Threads : WorkerReleaseCache(t)
  \/ ~Crashed /\ \E t \in Threads : WorkerUnlockQuerySubtree(t)
  \/ ~Crashed /\ \E t \in Threads : WorkerSetSplitSubtreeFlag(t)
  \/ ~Crashed /\ \E t \in Threads : WorkerRedistributeAmongCores(t)

\* Weak fairness of SendReceiveCall, written out: the call can be made
\* exactly while a subtable is left to receive in a process that has not
\* crashed, and it is the only step that changes the communicator.
SendReceiveIsFair ==
  \/ []<>(Crashed \/ ExchangeCanTerminate)
  \/ []<><<threads'[Communicator] # threads[Communicator]>>_vars

\* Weak fairness of WorkerRedistributeAmongCores(t), written out: the call
\* can be made exactly while worker t stands before it in a process that has
\* not crashed.
RedistributeIsFair(t) ==
  \/ []<>(Crashed \/ threads[t].pc # "RedistributeAmongCores")
  \/ []<><<threads[t].pc = "RedistributeAmongCores"
            /\ threads'[t] # threads[t]>>_vars

\* Every thread that can take a step takes one in the end: the scheduler
\* runs every thread, every call returns, and the lock is free between the
\* calls.
SpecLockingWorkers ==
  /\ InitWorkers
  /\ [][NextLockingWorkers]_vars
  /\ SendReceiveIsFair
  /\ \A t \in Threads : WF_vars(LockingWorkerStep(t)) /\ RedistributeIsFair(t)

(***************************************************************************)
(* The untargeted DequeueTask taken one loop iteration at a time by the    *)
(* thread that called it, under task_queue_lock_; the other calls are      *)
(* taken whole while the lock is free.                                     *)
(***************************************************************************)
\* DequeueTaskIteration that does not go on from a locked slot with tasks.
DequeueTaskIteration_StayAtLocked(s, probe_index) ==
  IF HeapSize(s.tasks_[probe_index]) > 0
  THEN IF ~s.query_subtree_locks_[probe_index]
       THEN [s |-> s, probe_index |-> probe_index, break |-> TRUE]
       ELSE [s |-> s, probe_index |-> probe_index, break |-> FALSE]
  ELSE IF ULongIsZero(s.remaining_work_for_query_subtrees_[probe_index])
       THEN [s |-> Compact(s, probe_index), probe_index |-> probe_index,
             break |-> FALSE]
       ELSE [s |-> s, probe_index |-> probe_index + 1, break |-> FALSE]

\* One iteration of the for loop of the untargeted DequeueTask at
\* probe_index (from 1): the fields after a cleanup, the probe index after
\* the loop's increment, and whether the loop breaks to take a task.
DequeueTaskIteration(s, probe_index) ==
  IF HeapSize(s.tasks_[probe_index]) > 0
  THEN IF ~s.query_subtree_locks_[probe_index]
       THEN [s |-> s, probe_index |-> probe_index, break |-> TRUE]
       ELSE [s |-> s, probe_index |-> probe_index + 1, break |-> FALSE]
  ELSE IF ULongIsZero(s.remaining_work_for_query_subtrees_[probe_index])
       THEN [s |-> Compact(s, probe_index), probe_index |-> probe_index,
             break |-> FALSE]
       ELSE [s |-> s, probe_index |-> probe_index + 1, break |-> FALSE]

\* Thread t calls DequeueTask(&task_out, lock_query_subtree_in) and sets the
\* lock; entered keeps the fields as the call found them.
DequeueTaskEnter(t) ==
  /\ threads[t].pc = "idle"
  /\ CanSetNestLock(task_queue_lock_, t)
  /\ NumUnreleased < MaxInFlight
  /\ task_queue_lock_' = omp_set_nest_lock(task_queue_lock_, t)
  /\ \E lock_query_subtree_in \in BOOLEAN :
       threads' = [threads EXCEPT
                     ![t] = [pc |-> "DequeueTask: for",
                             depth_at_entry |-> HeldDepth(task_queue_lock_, t),
                             probe_index |-> 1,
                             lock_query_subtree_in |-> lock_query_subtree_in,
                             task_out |-> UnsetTaskOut,
                             entered |-> Fields]]
  /\ UNCHANGED <<fieldVars, unreleased, ret, overwritten>>

\* One iteration of the loop by thread t, while probe_index is within
\* tasks_.
DequeueTaskIterate(t) ==
  /\ threads[t].pc = "DequeueTask: for"
  /\ threads[t].probe_index <= Len(tasks_)
  /\ LET iteration == DequeueTaskIteration(Fields, threads[t].probe_index)
     IN  IF iteration.break
         THEN \E task \in DequeueChoices(tasks_[threads[t].probe_index]) :
                /\ FieldsBecome(TakeTask(Fields, threads[t].probe_index, task,
                                         threads[t].lock_query_subtree_in))
                /\ threads' = [threads EXCEPT
                                 ![t].pc = "DequeueTask: unset",
                                 ![t].task_out =
                                    TaskOut(task, threads[t].probe_index)]
                /\ unreleased' = [unreleased EXCEPT ![task.cache_id] = @ + 1]
         ELSE /\ FieldsBecome(iteration.s)
              /\ threads' = [threads EXCEPT
                               ![t].probe_index = iteration.probe_index]
              /\ UNCHANGED unreleased
  /\ UNCHANGED <<ret, task_queue_lock_, overwritten>>

\* The loop is over for thread t: omp_unset_nest_lock and return.
DequeueTaskReturn(t) ==
  /\ IF threads[t].pc = "DequeueTask: for"
     THEN threads[t].probe_index > Len(tasks_)
     ELSE threads[t].pc = "DequeueTask: unset"
  /\ task_queue_lock_' = omp_unset_nest_lock(task_queue_lock_)
  /\ ret' = IF threads[t].task_out = UnsetTaskOut
            THEN [op |-> "DequeueTask", task_out |-> UnsetTaskOut]
            ELSE [op |-> "DequeueTask",
                  lock_query_subtree_in |-> threads[t].lock_query_subtree_in,
                  task_out |-> threads[t].task_out]
  /\ threads' = [threads EXCEPT ![t] = IdleThread]
  /\ UNCHANGED <<fieldVars, unreleased, overwritten>>

NextScan ==
  \/ LockIsFree /\ GenerateTasksCall
  \/ LockIsFree /\ ReleaseCacheCall
  \/ LockIsFree /\ PushCompletedComputationCall
  \/ LockIsFree /\ UnlockQuerySubtreeCall
  \/ \E t \in Threads : DequeueTaskEnter(t)
  \/ \E t \in Threads : DequeueTaskIterate(t)
  \/ \E t \in Threads : DequeueTaskReturn(t)

\* A thread inside the call goes on running.
SpecScan ==
  /\ Init
  /\ [][NextScan]_vars
  /\ \A t \in Threads : WF_vars(DequeueTaskIterate(t))
  /\ \A t \in Threads : WF_vars(DequeueTaskReturn(t))

(***************************************************************************)
(* Properties.                                                             *)
(***************************************************************************)
\* The tasks of cache id cache_id in a heap, and in all heaps.
HeapTasksWithCache(heap, cache_id) ==
  LET of_cache == {t \in BagToSet(heap) : t.cache_id = cache_id}
  IN  SumOver(of_cache, [t \in of_cache |-> CopiesIn(t, heap)])

TasksWithCache(cache_id) ==
  SumOver(1 .. Len(tasks_),
          [i \in 1 .. Len(tasks_) |-> HeapTasksWithCache(tasks_[i], cache_id)])

NumTasksInHeaps ==
  SumOver(1 .. Len(tasks_), [i \in 1 .. Len(tasks_) |-> HeapSize(tasks_[i])])

\* C1: for every cache id, the lock count the exchange holds equals the
\* number of tasks of that cache id in all heaps plus the number of tasks of
\* that cache id that were dequeued and whose ReleaseCache(c, 1) is still to
\* come.
C1_CacheLocksMatchTasks ==
  \A c \in CacheIds : cache_locks[c] = TasksWithCache(c) + unreleased[c]

\* C1 witness: a self-pair task went through two splits (three slots), a
\* task of the remote subtable is dequeued and not yet released, and tasks
\* of both cache ids are pending.
C1_Witness ==
  /\ Len(query_subtrees_) = 3
  /\ unreleased[RemoteCacheId] = 1
  /\ TasksWithCache(LocalCacheId) >= 4
  /\ TasksWithCache(RemoteCacheId) >= 1

\* C4: num_remaining_tasks_ equals the sum of the sizes of the heaps, and
\* so is never negative.
C4_NumRemainingTasksIsHeapSizes ==
  /\ num_remaining_tasks_ = NumTasksInHeaps
  /\ num_remaining_tasks_ >= 0

\* C4 witness: after tasks were inserted, a subtree split, a slot retired
\* (two slots left of three need a split and a cleanup) and a task dequeued,
\* tasks are still pending.
C4_Witness ==
  /\ ret.op = "DequeueTask"
  /\ ret.task_out # UnsetTaskOut
  /\ query_subtrees_ = <<4, 5>>
  /\ num_remaining_tasks_ >= 2

\* A step is (or has the effect of) UnlockQuerySubtree of query subtree q,
\* called for a live q by any caller or by a worker for the subtree it
\* locked.
UnlockStepOf(q) ==
  /\ FieldsBecome(UnlockQuerySubtree(Fields, NodeBegin(q), NodeCount(q)))
  /\ \/ ret' = NoReturn
     \/ /\ ret'.op = "UnlockQuerySubtree"
        /\ ret'.query_node_id = <<NodeBegin(q), NodeCount(q)>>
  /\ UNCHANGED unreleased

\* The last call was a DequeueTask (either form) that wrote a task to
\* *task_out.
DequeueReturnedTask(r) ==
  /\ r.op \in {"DequeueTask", "DequeueTaskAt"}
  /\ r.task_out # UnsetTaskOut

\* C2: while the lock of a query subtree q is set (a DequeueTask with
\* lock_query_subtree_in = true returned a task of q), every step other than
\* UnlockQuerySubtree(q) leaves q in a slot with its lock set, wherever the
\* slot is moved to, and no DequeueTask of either form returns a task of q.
C2_LockedSubtreeIsLeftAlone ==
  [][\A i \in 1 .. Len(query_subtrees_) :
       (query_subtree_locks_[i] /\ ~UnlockStepOf(query_subtrees_[i])) =>
         /\ \E j \in 1 .. Len(query_subtrees_') :
              query_subtrees_'[j] = query_subtrees_[i]
         /\ \A j \in 1 .. Len(query_subtrees_') :
              query_subtrees_'[j] = query_subtrees_[i] => query_subtree_locks_'[j]
         /\ DequeueReturnedTask(ret') =>
              ret'.task_out.first.query_start_node # query_subtrees_[i]]_vars

\* The (rank, begin, count) of the reference subtree of a task.
ReferenceTriple(task) ==
  <<task.reference_table, NodeBegin(task.reference_start_node),
    NodeCount(task.reference_start_node)>>

TasksWithReference(heap, triple) ==
  LET same == {t \in BagToSet(heap) : ReferenceTriple(t) = triple}
  IN  SumOver(same, [t \in same |-> CopiesIn(t, heap)])

\* The reference points a task covers.
ReferencePoints(task) ==
  IntervalPoints(<<task.reference_table, NodeBegin(task.reference_start_node),
                   NodeBegin(task.reference_start_node)
                     + NodeCount(task.reference_start_node)>>)

\* C3: in every state, no heap holds two tasks with the same
\* reference (rank, begin, count).
C3_AtMostOneTaskPerReference ==
  \A i \in 1 .. Len(tasks_) :
    \A t \in BagToSet(tasks_[i]) :
      TasksWithReference(tasks_[i], ReferenceTriple(t)) = 1

\* The five entries of slot i of the fields s.
SlotOf(s, i) ==
  <<s.query_subtrees_[i], s.assigned_work_[i],
    s.remaining_work_for_query_subtrees_[i], s.query_subtree_locks_[i],
    s.tasks_[i]>>

\* The five arrays of s have the length n.
ArraysHaveLength(s, n) ==
  /\ Len(s.query_subtrees_) = n
  /\ Len(s.assigned_work_) = n
  /\ Len(s.remaining_work_for_query_subtrees_) = n
  /\ Len(s.query_subtree_locks_) = n
  /\ Len(s.tasks_) = n

\* The five arrays have one length, and the heap and the interval set at an
\* index are those of the query subtree at that index.
ArraysAligned ==
  /\ ArraysHaveLength(Fields, Len(query_subtrees_))
  /\ \A i \in 1 .. Len(query_subtrees_) :
       \A t \in BagToSet(tasks_[i]) :
         /\ t.query_start_node = query_subtrees_[i]
         /\ ReferencePoints(t) \subseteq assigned_work_[i]

\* A compaction of any slot p removes one entry from each array, puts the
\* five entries of the tail into slot p (when p is not the tail) and leaves
\* every other slot as it was.
CompactionMovesTail ==
  LET n == Len(query_subtrees_)
  IN  \A p \in 1 .. n :
        /\ ArraysHaveLength(Compact(Fields, p), n - 1)
        /\ \A k \in 1 .. n - 1 :
             SlotOf(Compact(Fields, p), k)
               = IF k = p THEN SlotOf(Fields, n) ELSE SlotOf(Fields, k)

\* What a call does to the arrays: it adds at most one slot; when it adds
\* one, the old slots keep their places (the split slot holding the left
\* child); when it removes slots, it is the untargeted DequeueTask, the
\* slots it removes had an empty heap and no remaining work, and every slot
\* left is a slot of before with its five entries together (but for the task
\* taken and the lock set in the slot that DequeueTask returns).
CallKeepsSlotsTogether ==
  LET n == Len(query_subtrees_)
      m == Len(query_subtrees_')
  IN  /\ m <= n + 1
      /\ m = n + 1 =>
           /\ \A k \in 1 .. n :
                \/ query_subtrees_'[k] = query_subtrees_[k]
                \/ /\ query_subtrees_'[k] = left(query_subtrees_[k])
                   /\ query_subtrees_'[m] = right(query_subtrees_[k])
           /\ \E k \in 1 .. n :
                /\ query_subtrees_'[k] # query_subtrees_[k]
                /\ assigned_work_'[m] = assigned_work_[k]
                /\ remaining_work_for_query_subtrees_'[m]
                     = remaining_work_for_query_subtrees_[k]
                /\ ~query_subtree_locks_'[m]
      /\ m < n =>
           /\ ret'.op = "DequeueTask"
           /\ \A j \in 1 .. m :
                \E i \in 1 .. n :
                  /\ query_subtrees_'[j] = query_subtrees_[i]
                  /\ assigned_work_'[j] = assigned_work_[i]
                  /\ remaining_work_for_query_subtrees_'[j]
                       = remaining_work_for_query_subtrees_[i]
                  /\ \/ /\ tasks_'[j] = tasks_[i]
                        /\ query_subtree_locks_'[j] = query_subtree_locks_[i]
                     \/ /\ ret'.task_out.second = j - 1
                        /\ tasks_'[j] = HeapRemove(tasks_[i], ret'.task_out.first)
                        /\ query_subtree_locks_'[j] = ret'.lock_query_subtree_in
           /\ \A i \in 1 .. n :
                (HeapSize(tasks_[i]) > 0
                   \/ remaining_work_for_query_subtrees_[i] # 0)
                  => \E j \in 1 .. m : query_subtrees_'[j] = query_subtrees_[i]

\* C5: after Init and after every call the five arrays have one length and
\* the entries at an index belong to one subtree; a split appends one entry
\* to each array; a compaction moves the five entries of the tail together
\* into the retired slot, removes one entry from each array and leaves the
\* other slots unchanged, also when the retired slot is the tail.
C5_ParallelArraysStayAligned ==
  /\ [](ArraysAligned /\ CompactionMovesTail)
  /\ [][CallKeepsSlotsTogether]_vars

\* C5 witness: the frontier <<2, 3>> was split into <<4, 3, 5>>, and the
\* untargeted DequeueTask retired slot 0 and moved the tail (subtree 5) with
\* its pending tasks into it.
C5_Witness ==
  /\ query_subtrees_ = <<5, 3>>
  /\ ret.op = "DequeueTask"
  /\ HeapSize(tasks_[1]) > 0
  /\ \A t \in BagToSet(tasks_[1]) : t.query_start_node = 5

\* The elements of a sequence.
Range(seq) == {seq[k] : k \in 1 .. Len(seq)}

\* The interval (rank, begin, begin + count) GenerateTasks inserts for a
\* descriptor.
DescriptorInterval(descriptor) ==
  <<descriptor[1], descriptor[2], descriptor[2] + descriptor[3]>>

\* The reference points of the descriptors before position k of a list.
PointsBefore(received_subtable_ids, k) ==
  UNION {IntervalPoints(DescriptorInterval(received_subtable_ids[i])) :
           i \in 1 .. k - 1}

\* The positions of a list whose interval Insert accepts for slot j: those
\* not covered by the interval set of the slot and the descriptors before
\* them in the list.
AcceptedFor(j, received_subtable_ids) ==
  {k \in 1 .. Len(received_subtable_ids) :
     InsertReturns(assigned_work_[j] \cup PointsBefore(received_subtable_ids, k),
                   DescriptorInterval(received_subtable_ids[k]))}

\* The task GenerateTasks pushes into heap j for a descriptor: the pair of
\* the query subtree of slot j with the reference node of that rank, begin
\* and count, the midpoint of their squared distance range negated as its
\* priority.
TaskFor(j, descriptor) ==
  LET node == CHOOSE n \in Nodes :
                /\ NodeRank(n) = descriptor[1]
                /\ NodeBegin(n) = descriptor[2]
                /\ NodeCount(n) = descriptor[3]
  IN  [query_start_node |-> query_subtrees_[j],
       reference_table |-> descriptor[1],
       reference_start_node |-> node,
       cache_id |-> descriptor[4],
       priority |-> 0 - RangeMid(RangeDistanceSq(query_subtrees_[j], node))]

\* The heaps and the lock counts GenerateTasks is to leave for an arrival
\* list: in heap j one more task for each descriptor accepted for slot j, and
\* for each cache id one more lock for each such task with that id.
HeapsWithAccepted(received_subtable_ids) ==
  [j \in 1 .. Len(tasks_) |->
     tasks_[j] (+) SetToBag({TaskFor(j, received_subtable_ids[k]) :
                              k \in AcceptedFor(j, received_subtable_ids)})]

LocksWithAccepted(received_subtable_ids) ==
  [c \in CacheIds |->
     cache_locks[c]
       + SumOver(1 .. Len(tasks_),
                 [j \in 1 .. Len(tasks_) |->
                    Cardinality({k \in AcceptedFor(j, received_subtable_ids) :
                                   received_subtable_ids[k][4] = c})])]

\* The tasks DequeueTask(j, ...) returns when called until heap j of s is
\* empty; none while subtree j is locked.
Dequeueable(s, j) == Range(DrainTasks(s, j, <<>>).prev_tasks)

\* s once subtree j is unlocked.
UnlockedAt(s, j) == [s EXCEPT !.query_subtree_locks_[j] = FALSE]

\* C6: in every state and for every arrival list, GenerateTasks adds to
\* Heap[q] one task for each descriptor whose interval Insert accepts for q
\* and nothing else, and locks each cache id once per task added with that
\* id; and every task of a heap (so every task GenerateTasks has added) is
\* returned by the dequeues of its heap that follow, from the unlocking of
\* its subtree on when the subtree is locked.
C6_OneTaskAndOneLockPerAcceptedInterval ==
  /\ \A received_subtable_ids \in ListsOver(NestedDescriptors) :
       LET after == GenerateTasks(Fields, received_subtable_ids)
       IN  /\ after.tasks_ = HeapsWithAccepted(received_subtable_ids)
           /\ after.cache_locks = LocksWithAccepted(received_subtable_ids)
  /\ \A j \in 1 .. Len(tasks_) :
       BagToSet(tasks_[j]) =
         IF query_subtree_locks_[j]
         THEN Dequeueable(UnlockedAt(Fields, j), j)
         ELSE Dequeueable(Fields, j)

\* C6 witness: GenerateTasks has put the local and the remote reference
\* subtree into the heaps of the frontier <<2, 3>>: two tasks each, one lock
\* per task, and a later arrival of either would add nothing.
C6_Witness ==
  /\ query_subtrees_ = <<2, 3>>
  /\ HeapSize(tasks_[1]) = 2
  /\ HeapSize(tasks_[2]) = 2
  /\ num_remaining_tasks_ = 4
  /\ cache_locks = [c \in CacheIds |-> 2]
  /\ \A j \in 1 .. 2 : \A d \in Descriptors : AcceptedFor(j, <<d>>) = {}

\* C7: in every state and for every arrival list, a second GenerateTasks
\* with the list leaves the heaps, num_remaining_tasks_ and the lock count of
\* every cache id as the first call left them.
C7_GenerateTasksTwiceIsOnce ==
  \A received_subtable_ids \in ListsOver(NestedDescriptors) :
    LET once == GenerateTasks(Fields, received_subtable_ids)
        twice == GenerateTasks(once, received_subtable_ids)
    IN  /\ twice.tasks_ = once.tasks_
        /\ twice.num_remaining_tasks_ = once.num_remaining_tasks_
        /\ twice.cache_locks = once.cache_locks

\* C7 witness: two query subtrees with pending tasks and the remote subtable
\* still to arrive: the first GenerateTasks with it adds one task and one
\* lock per query subtree, the second nothing.
C7_Witness ==
  /\ Len(query_subtrees_) = 2
  /\ num_remaining_tasks_ > 0
  /\ \E received_subtable_ids \in ListsOver(NestedDescriptors) :
       LET once == GenerateTasks(Fields, received_subtable_ids)
       IN  /\ once.num_remaining_tasks_ = num_remaining_tasks_ + 2
           /\ once.cache_locks[RemoteCacheId] = cache_locks[RemoteCacheId] + 2
           /\ GenerateTasks(once, received_subtable_ids) = once

\* A slot the untargeted DequeueTask is said to skip: one with an empty heap
\* and remaining work, or a locked one.
SkippedSlot(i) ==
  \/ /\ HeapSize(tasks_[i]) = 0
     /\ remaining_work_for_query_subtrees_[i] # 0
  \/ query_subtree_locks_[i]

\* A step of the untargeted DequeueTask.  When it returns a task at index k
\* (counted in the arrays as the call leaves them): the task was a top task
\* of an unlocked slot, that slot is at k without the task and with its lock
\* set to lock_query_subtree_in, num_remaining_tasks_ is one less, and every
\* slot below k is locked or has an empty heap.  When it returns none, no
\* slot left is unlocked with tasks and num_remaining_tasks_ is as before.
\* In both cases every skipped slot is still there with its five entries.
UntargetedDequeueStep ==
  LET n == Len(query_subtrees_)
      m == Len(query_subtrees_')
      k == ret'.task_out.second + 1
      task == ret'.task_out.first
  IN  ret'.op = "DequeueTask" =>
        /\ DequeueReturnedTask(ret') =>
             /\ k \in 1 .. m
             /\ \E i \in 1 .. n :
                  /\ query_subtrees_[i] = query_subtrees_'[k]
                  /\ ~query_subtree_locks_[i]
                  /\ task \in TopTasks(tasks_[i])
                  /\ tasks_'[k] = HeapRemove(tasks_[i], task)
                  /\ assigned_work_'[k] = assigned_work_[i]
                  /\ remaining_work_for_query_subtrees_'[k]
                       = remaining_work_for_query_subtrees_[i]
             /\ query_subtree_locks_'[k] = ret'.lock_query_subtree_in
             /\ num_remaining_tasks_' = num_remaining_tasks_ - 1
             /\ \A j \in 1 .. k - 1 :
                  HeapSize(tasks_'[j]) = 0 \/ query_subtree_locks_'[j]
        /\ ~DequeueReturnedTask(ret') =>
             /\ num_remaining_tasks_' = num_remaining_tasks_
             /\ \A j \in 1 .. m :
                  HeapSize(tasks_'[j]) = 0 \/ query_subtree_locks_'[j]
        /\ \A i \in 1 .. n :
             SkippedSlot(i) =>
               \E j \in 1 .. m : SlotOf(Fields', j) = SlotOf(Fields, i)

\* C8: the untargeted DequeueTask returns the top task of the lowest-index
\* unlocked slot with tasks, sets its lock, counts down and reports its
\* index, and every slot that is locked, or has an empty heap and remaining
\* work, is skipped unchanged.
C8_UntargetedDequeueTakesLowest == [][UntargetedDequeueStep]_vars

\* The midpoint of the range of squared distances between the two nodes of
\* a task.
MidpointOf(task) ==
  RangeMid(RangeDistanceSq(task.query_start_node, task.reference_start_node))

\* C9: the task a DequeueTask (either form) has just returned has a priority
\* no less than that of every task left in the heap it came from, and its
\* pair of nodes is no farther (by the midpoint of the squared distance
\* range) than the pair of any task left.
C9_DequeueReturnsGreatestPriority ==
  DequeueReturnedTask(ret) =>
    \A u \in BagToSet(tasks_[ret.task_out.second + 1]) :
      /\ u.priority <= ret.task_out.first.priority
      /\ MidpointOf(ret.task_out.first) <= MidpointOf(u)

\* C9 witness: after insertions, dequeues and a split, a DequeueTask has
\* returned a task and left two farther tasks with two priorities in the
\* heap.
C9_Witness ==
  /\ DequeueReturnedTask(ret)
  /\ Len(query_subtrees_) = 3
  /\ \E u, v \in BagToSet(tasks_[ret.task_out.second + 1]) :
       /\ u.priority < v.priority
       /\ v.priority < ret.task_out.first.priority
       /\ u.query_start_node = ret.task_out.first.query_start_node

\* C10: the can_terminate() that has just returned answered true exactly
\* when remaining_global_computation_ is 0 and the exchange's
\* can_terminate() answers true, whatever tasks are pending, locks are held
\* and remaining_local_computation_ is.
C10_CanTerminateIffGlobalZeroAndExchange ==
  ret.op = "can_terminate" =>
    (ret.result <=> (remaining_global_computation_ = 0
                       /\ ret.exchange_can_terminate))

\* C10 witness: can_terminate() has answered true with tasks pending and a
\* query subtree locked.
C10_Witness ==
  /\ ret.op = "can_terminate"
  /\ ret.result
  /\ num_remaining_tasks_ > 0
  /\ \E i \in 1 .. Len(query_subtree_locks_) : query_subtree_locks_[i]


\* C11: once can_terminate() has returned true it returns true ever after,
\* whatever is called next, further reports of completed work included
\* (the exchange keeps answering that it can terminate): a step from a state
\* where the test succeeds leads to a state where it succeeds.
C11_CanTerminateStaysTrue ==
  [][can_terminate(Fields, TRUE) => can_terminate(Fields', TRUE)]_vars

\* C12: in every step remaining_global_computation_,
\* remaining_local_computation_ and the remaining work of every query subtree
\* that is live before and after the step do not increase (as unsigned long
\* values), whatever reference count and quantity are reported.
C12_CountersNeverIncrease ==
  [][/\ ~ULongLess(remaining_global_computation_,
                   remaining_global_computation_')
     /\ ~ULongLess(remaining_local_computation_,
                   remaining_local_computation_')
     /\ \A i \in 1 .. Len(query_subtrees_), j \in 1 .. Len(query_subtrees_') :
          query_subtrees_[i] = query_subtrees_'[j] =>
            ~ULongLess(remaining_work_for_query_subtrees_[i],
                       remaining_work_for_query_subtrees_'[j])]_vars

\* a - b as the counter would hold it if it saturated at zero.
SaturatingSub(a, b) == IF ULongLess(a, b) THEN 0 ELSE ULongSub(a, b)

\* C13: a report of more than a counter holds leaves that counter at zero
\* instead of wrapping: after push_completed_computation, in either form,
\* remaining_global_computation_ and remaining_local_computation_ are the
\* saturating difference with quantity_in, and the remaining work of each
\* query subtree the report is for is the saturating difference with
\* reference_count_in.
C13_UnderflowSaturatesAtZero ==
  [][ret'.op \in {"push_completed_computation",
                  "push_completed_computation_all"} =>
       /\ remaining_global_computation_' =
            SaturatingSub(remaining_global_computation_, ret'.quantity_in)
       /\ remaining_local_computation_' =
            SaturatingSub(remaining_local_computation_, ret'.quantity_in)
       /\ \A i \in 1 .. Len(query_subtrees_) :
            (\/ ret'.op = "push_completed_computation_all"
             \/ ret'.query_node_id = <<NodeBegin(query_subtrees_[i]),
                                       NodeCount(query_subtrees_[i])>>) =>
              remaining_work_for_query_subtrees_'[i] =
                SaturatingSub(remaining_work_for_query_subtrees_[i],
                              ret'.reference_count_in)]_vars

\* C15: split_subtree_after_unlocking_ is false after every return of
\* RedistributeAmongCores, whether or not it split a subtree, and a call that
\* finds the flag false changes no field: both hold of the call made in any
\* reachable state.
C15_RedistributeClearsFlag ==
  LET after == RedistributeAmongCores(Fields)
  IN  /\ ~after.split_subtree_after_unlocking_
      /\ ~split_subtree_after_unlocking_ => after = Fields

\* The split was requested while no slot qualifies (the only subtree is
\* locked with its task taken), so the call returns without splitting.
C15_Witness ==
  /\ split_subtree_after_unlocking_
  /\ Len(query_subtrees_) >= 1
  /\ FindSplitIndex(Fields, 1, 0, 0) = 0
  /\ \E i \in 1 .. Len(query_subtrees_) :
       query_subtree_locks_[i] /\ ~is_leaf(query_subtrees_[i])
  /\ RedistributeAmongCores(Fields) =
       [Fields EXCEPT !.split_subtree_after_unlocking_ = FALSE]

\* C19: a report for one query subtree takes quantity_in off
\* remaining_global_computation_ and remaining_local_computation_ and
\* reference_count_in off the remaining work of exactly the matching slot,
\* every other slot keeping its remaining work; the bulk report takes
\* quantity_in off both counters and reference_count_in off every slot.
\* Neither changes the heaps, the subtree locks, the assigned work, the
\* query subtrees or num_remaining_tasks_.  (The differences are those of
\* unsigned long.)
C19_ReportChangesCountersOnly ==
  [][ret'.op \in {"push_completed_computation",
                  "push_completed_computation_all"} =>
       /\ remaining_global_computation_' =
            ULongSub(remaining_global_computation_, ret'.quantity_in)
       /\ remaining_local_computation_' =
            ULongSub(remaining_local_computation_, ret'.quantity_in)
       /\ Len(remaining_work_for_query_subtrees_') =
            Len(remaining_work_for_query_subtrees_)
       /\ \A i \in 1 .. Len(query_subtrees_) :
            remaining_work_for_query_subtrees_'[i] =
              IF \/ ret'.op = "push_completed_computation_all"
                 \/ ret'.query_node_id = <<NodeBegin(query_subtrees_[i]),
                                           NodeCount(query_subtrees_[i])>>
              THEN ULongSub(remaining_work_for_query_subtrees_[i],
                            ret'.reference_count_in)
              ELSE remaining_work_for_query_subtrees_[i]
       /\ UNCHANGED <<tasks_, query_subtree_locks_, assigned_work_,
                      query_subtrees_, num_remaining_tasks_>>]_vars

\* A report for one of two live query subtrees has been made while a task is
\* pending and a subtree is locked; the two slots now differ in remaining
\* work.
C19_Witness ==
  /\ ret.op = "push_completed_computation"
  /\ Len(query_subtrees_) = 2
  /\ remaining_work_for_query_subtrees_[1] # remaining_work_for_query_subtrees_[2]
  /\ num_remaining_tasks_ > 0
  /\ \E i \in 1 .. 2 : query_subtree_locks_[i]

\* The points of the tree rooted at node, counted leaf by leaf.
RECURSIVE PointsUnder(_)
PointsUnder(node) ==
  IF is_leaf(node) THEN NodeCount(node)
  ELSE PointsUnder(left(node)) + PointsUnder(right(node))

\* The points each process holds (the query table is the reference table).
PointsOfRank(rank) ==
  IF rank = LocalRank THEN PointsUnder(1) ELSE PointsUnder(RemoteRoot)

\* C20: in the state Init leaves, remaining_global_computation_ is the query
\* points of all processes times the reference points of all processes,
\* remaining_local_computation_ is this process's query points times the
\* reference points of all processes, the remaining work of every frontier
\* subtree is the reference points of all processes, every subtree lock is
\* false, every heap and every interval set is empty, num_remaining_tasks_ is
\* 0 and split_subtree_after_unlocking_ is false.  Stated of the first state
\* of every behaviour.
C20_ValuesAfterInit ==
  /\ LET all_points == SumOver(Ranks, [r \in Ranks |-> PointsOfRank(r)])
     IN  /\ remaining_global_computation_ = all_points * all_points
         /\ remaining_local_computation_ = PointsOfRank(LocalRank) * all_points
         /\ Len(remaining_work_for_query_subtrees_) = Len(query_subtrees_)
         /\ \A i \in 1 .. Len(query_subtrees_) :
              remaining_work_for_query_subtrees_[i] = all_points
  /\ Len(query_subtree_locks_) = Len(query_subtrees_)
  /\ Len(tasks_) = Len(query_subtrees_)
  /\ Len(assigned_work_) = Len(query_subtrees_)
  /\ \A i \in 1 .. Len(query_subtrees_) :
       /\ ~query_subtree_locks_[i]
       /\ HeapSize(tasks_[i]) = 0
       /\ assigned_work_[i] = {}
  /\ num_remaining_tasks_ = 0
  /\ ~split_subtree_after_unlocking_
  /\ [][TRUE]_vars

\* Init has returned a frontier of two query subtrees and nothing was called
\* since.
C20_Witness ==
  /\ Len(query_subtrees_) = 2
  /\ Fields = InitFields(query_subtrees_)
  /\ ret = NoReturn

\* C17: a call of push_completed_computation(query_node_id, ...) or
\* UnlockQuerySubtree(query_subtree_id) whose id matches no live query
\* subtree is fatal: the call aborts without using the index of the failed
\* lookup on the arrays (no access outside 0 .. size - 1).
C17_LookupMissAborts ==
  ("found_index" \in DOMAIN ret /\ ret.found_index = -1) =>
    /\ ret.outcome = "aborted"
    /\ ret.accessed_index \in 0 .. Len(query_subtrees_) - 1

\* A list without the descriptors the exchange cannot resolve.
ResolvedOnly(received_subtable_ids) ==
  SelectSeq(received_subtable_ids, Resolves)

\* C18: a descriptor for which FindSubTable and FindByBeginCount both give
\* nothing is skipped: GenerateTasks returns, and leaves the fields as it
\* leaves them for the list without that descriptor (no task, no interval
\* and no cache lock for it, the other descriptors handled as ever).
C18_UnresolvedDescriptorIsSkipped ==
  [][ret'.op = "GenerateTasks" =>
       /\ ret'.outcome = "returned"
       /\ Fields' = GenerateTasks(Fields,
                                  ResolvedOnly(ret'.received_subtable_ids))]_vars

\* Thread t takes a step that reads or writes a field of the dispatcher.
AccessesField(t) ==
  /\ threads[t].pc \in LockedMethods \cup {"push_completed_computation: store",
                                          "holds_reference", "loaded"}
  /\ threads'[t] # threads[t]

\* Thread t returns from a call.
ReturnsFromCall(t) ==
  /\ threads[t].pc \in LockedMethods \cup {"push_completed_computation: store",
                                          "loaded"}
  /\ threads'[t].pc = "idle"

\* C16: every public method holds task_queue_lock_ from entry to return: a
\* thread reads or writes a field (remaining_global_computation_ included)
\* only while it owns the lock, and at each return it holds the lock at the
\* depth at which it held it on entry.
C16_FieldsOnlyUnderLock ==
  [][\A t \in Threads :
       /\ AccessesField(t) => task_queue_lock_.owner = t
       /\ ReturnsFromCall(t) =>
            HeldDepth(task_queue_lock_', t) = threads[t].depth_at_entry]_vars

\* A slot RedistributeAmongCores may split: unlocked, not a leaf, with a
\* pending task.
CanBeSplit(i) ==
  /\ ~query_subtree_locks_[i]
  /\ ~is_leaf(query_subtrees_[i])
  /\ HeapSize(tasks_[i]) > 0

\* The slots of the greatest point count among those that may be split.
LargestThatCanBeSplit ==
  {i \in 1 .. Len(query_subtrees_) :
     /\ CanBeSplit(i)
     /\ \A j \in 1 .. Len(query_subtrees_) :
          CanBeSplit(j) =>
            NodeCount(query_subtrees_[j]) <= NodeCount(query_subtrees_[i])}

\* The query subtrees after a split of slot i: the left child in its place,
\* the right child at the end.
QuerySubtreesSplitAt(i) ==
  Append([query_subtrees_ EXCEPT ![i] = left(query_subtrees_[i])],
         right(query_subtrees_[i]))

\* C14: RedistributeAmongCores called with split_subtree_after_unlocking_
\* set splits exactly the slot of lowest index among the unlocked, non-leaf
\* slots with a pending task that have the greatest point count, and splits
\* nothing (the query subtrees stay as they are) when there is no such slot;
\* so a leaf, a locked subtree and a subtree with an empty heap are never
\* split.  Stated of the call made in any reachable state.
C14_SplitsLargestLowestIndex ==
  split_subtree_after_unlocking_ =>
    LET after == RedistributeAmongCores(Fields)
    IN  IF LargestThatCanBeSplit = {}
        THEN after.query_subtrees_ = query_subtrees_
        ELSE LET i == CHOOSE k \in LargestThatCanBeSplit :
                        \A j \in LargestThatCanBeSplit : k <= j
             IN  after.query_subtrees_ = QuerySubtreesSplitAt(i)

\* A split is requested while two slots that may be split tie for the
\* greatest point count, beside a leaf of the same point count; the call
\* splits the one of lower index.
C14_Witness ==
  /\ split_subtree_after_unlocking_
  /\ \E i, j \in LargestThatCanBeSplit : i < j
  /\ \E k \in 1 .. Len(query_subtrees_) :
       /\ is_leaf(query_subtrees_[k])
       /\ \A i \in LargestThatCanBeSplit :
            NodeCount(query_subtrees_[k]) = NodeCount(query_subtrees_[i])
  /\ \E i \in LargestThatCanBeSplit :
       RedistributeAmongCores(Fields).query_subtrees_ = QuerySubtreesSplitAt(i)

(***************************************************************************)
(* The split of a query subtree.                                           *)
(***************************************************************************)
\* A step that splits: the only call that makes the arrays longer.
SplitStep == Len(query_subtrees_') > Len(query_subtrees_)

\* The slot a split step splits: the choice of RedistributeAmongCores in the
\* state before it.
SplitSlot == FindSplitIndex(Fields, 1, 0, 0)

\* Slot i but for its heap: subtree, interval set, remaining work, lock.
SlotButHeap(s, i) ==
  <<s.query_subtrees_[i], s.assigned_work_[i],
    s.remaining_work_for_query_subtrees_[i], s.query_subtree_locks_[i]>>

\* C21: a split of slot p, whose subtree T has the children L and R, puts L
\* at slot p and appends one slot holding R, unlocked, with the remaining
\* work and a copy of the interval set of slot p; the lock, the remaining
\* work and the interval set of slot p keep their values, and the five
\* entries of every other slot are unchanged.
C21_SplitFrame ==
  [][SplitStep =>
       LET p == SplitSlot
           n == Len(query_subtrees_)
           T == query_subtrees_[p]
       IN  /\ p \in 1 .. n
           /\ ArraysHaveLength(Fields', n + 1)
           /\ SlotButHeap(Fields', p) =
                <<left(T), assigned_work_[p],
                  remaining_work_for_query_subtrees_[p],
                  query_subtree_locks_[p]>>
           /\ SlotButHeap(Fields', n + 1) =
                <<right(T), assigned_work_[p],
                  remaining_work_for_query_subtrees_[p], FALSE>>
           /\ \A i \in (1 .. n) \ {p} : SlotOf(Fields', i) = SlotOf(Fields, i)]_vars

\* A split has acted beside a third slot: the children of one subtree sit at
\* a slot and at the end, with equal non-empty interval sets and equal
\* non-zero remaining work.
C21_Witness ==
  \E p \in 1 .. Len(query_subtrees_) - 1, T \in WideNodes :
    LET n == Len(query_subtrees_)
    IN  /\ n >= 3
        /\ ~is_leaf(T)
        /\ query_subtrees_[p] = left(T)
        /\ query_subtrees_[n] = right(T)
        /\ assigned_work_[n] = assigned_work_[p]
        /\ assigned_work_[p] # {}
        /\ remaining_work_for_query_subtrees_[n] =
             remaining_work_for_query_subtrees_[p]
        /\ remaining_work_for_query_subtrees_[p] > 0

\* A pending task of the subtree T whose reference node is T itself and can
\* be split with it.
IsSelfPair(t, T) ==
  /\ ~is_leaf(t.reference_start_node)
  /\ t.reference_start_node = T

\* The reference nodes that take the place of the reference node of t when
\* T is split.
ReferenceNodesAfterSplit(t, T) ==
  IF IsSelfPair(t, T)
  THEN {left(t.reference_start_node), right(t.reference_start_node)}
  ELSE {t.reference_start_node}

\* The tasks that take the place of t in the heap of a child of T.
TasksReplacing(t, T, child) ==
  {NewTask(child, <<t.reference_table, m, t.cache_id>>) :
     m \in ReferenceNodesAfterSplit(t, T)}

\* The heap of a child of T after the split, from the heap of T before it.
HeapAfterSplit(heap, T, child) ==
  LET new == UNION {TasksReplacing(t, T, child) : t \in BagToSet(heap)}
      from(u) == {t \in BagToSet(heap) : u \in TasksReplacing(t, T, child)}
  IN  [u \in new |->
         SumOver(from(u), [t \in from(u) |-> CopiesIn(t, heap)])]

\* What the split adds, over the tasks of heap that satisfy keep: 3 for a
\* self-pair task, 1 for any other.
AddedBySplit(heap, T, keep(_)) ==
  LET kept == {t \in BagToSet(heap) : keep(t)}
  IN  SumOver(kept,
              [t \in kept |->
                 CopiesIn(t, heap) * (IF IsSelfPair(t, T) THEN 3 ELSE 1)])

\* C22: a split of the subtree T of slot p into L and R replaces every task
\* (T, N, c) pending at slot p by the four tasks (L, N.left), (L, N.right),
\* (R, N.left), (R, N.right) and three more locks of c when N is T itself and
\* not a leaf, and by the two tasks (L, N), (R, N) and one more lock of c
\* otherwise; no task is dropped, both children receive the same number of
\* tasks, and num_remaining_tasks_ grows by 3 per self-pair task and by 1 per
\* other task.
C22_SplitReplacesTasks ==
  [][SplitStep =>
       LET p == SplitSlot
           n == Len(query_subtrees_)
           T == query_subtrees_[p]
           heap == tasks_[p]
           AnyTask(t) == TRUE
       IN  /\ tasks_'[p] = HeapAfterSplit(heap, T, left(T))
           /\ tasks_'[n + 1] = HeapAfterSplit(heap, T, right(T))
           /\ HeapSize(tasks_'[p]) = HeapSize(tasks_'[n + 1])
           /\ HeapSize(tasks_'[p]) >= HeapSize(heap)
           /\ \A c \in CacheIds :
                LET OfCache(t) == t.cache_id = c
                IN  cache_locks'[c] =
                      cache_locks[c] + AddedBySplit(heap, T, OfCache)
           /\ num_remaining_tasks_' =
                num_remaining_tasks_ + AddedBySplit(heap, T, AnyTask)]_vars

\* A split has replaced a self-pair task and a task of the remote subtable:
\* each child of the root holds three tasks, one per child of the root as
\* reference and one of the remote subtable.
C22_Witness ==
  \E p \in 1 .. Len(query_subtrees_) - 1 :
    LET n == Len(query_subtrees_)
        References(i) ==
          {<<t.reference_start_node, t.cache_id>> : t \in BagToSet(tasks_[i])}
        Replaced ==
          {<<left(1), LocalCacheId>>, <<right(1), LocalCacheId>>,
           <<RemoteRoot, RemoteCacheId>>}
    IN  /\ query_subtrees_[p] = left(1)
        /\ query_subtrees_[n] = right(1)
        /\ References(p) = Replaced
        /\ References(n) = Replaced
        /\ cache_locks[LocalCacheId] = 4
        /\ cache_locks[RemoteCacheId] = 2
        /\ num_remaining_tasks_ = 6

\* The task GenerateTasks pushes at slot j of s for a descriptor.
TaskOfDescriptor(s, j, descriptor) ==
  LET subtable == FindSubTable(descriptor[4])
      node == IF subtable # NoNode THEN subtable
              ELSE FindByBeginCount(descriptor[2], descriptor[3])
      table == IF subtable # NoNode THEN NodeTable(subtable) ELSE LocalRank
  IN  NewTask(s.query_subtrees_[j], <<table, node, descriptor[4]>>)

\* The slots of s whose interval set does not cover the interval of a
\* descriptor.
SlotsAccepting(s, descriptor) ==
  {j \in 1 .. Size(s) :
     InsertReturns(s.assigned_work_[j], DescriptorInterval(descriptor))}

\* C23: after a split of slot p, GenerateTasks with a reference interval
\* that was assigned to the parent pushes no task for either child and locks
\* the cache for neither; an interval the parent did not hold is accepted
\* for the left child and, after that, once for the right child as well
\* (one task and one lock each), since the interval set of the right child
\* is a copy of its own; and the interval set of a slot loses nothing while
\* its subtree stays in the slot, so what the children took over from the
\* parent is still refused in the calls that come later.
C23_ChildrenInheritAssignedWork ==
  [][/\ SplitStep =>
          LET p == SplitSlot
              n == Len(query_subtrees_)
              children == {p, n + 1}
              split == Fields'
          IN  \A d \in Descriptors :
                LET after == GenerateTasks(split, <<d>>)
                    accepting == SlotsAccepting(split, d)
                IN  /\ after.cache_locks[d[4]] =
                         split.cache_locks[d[4]] + Cardinality(accepting)
                    /\ IF ~InsertReturns(assigned_work_[p], DescriptorInterval(d))
                       THEN /\ children \cap accepting = {}
                            /\ \A j \in children : after.tasks_[j] = split.tasks_[j]
                       ELSE /\ children \subseteq accepting
                            /\ \A j \in children :
                                 /\ after.tasks_[j] =
                                      HeapPush(split.tasks_[j],
                                               TaskOfDescriptor(split, j, d))
                                 /\ ~InsertReturns(after.assigned_work_[j],
                                                   DescriptorInterval(d))
     /\ \A i \in 1 .. Len(query_subtrees_) :
          (i <= Len(query_subtrees_') /\ query_subtrees_'[i] = query_subtrees_[i])
            => assigned_work_[i] \subseteq assigned_work_'[i]]_vars

\* After a split of the root that held the remote subtable only, the local
\* reference tree arrived: each child of the root holds one task of the
\* remote subtable, taken over from the parent, and one task whose
\* reference node is the whole root, accepted for each child after the
\* split; both interval sets now cover both tables.
C23_Witness ==
  \E p \in 1 .. Len(query_subtrees_) - 1 :
    LET n == Len(query_subtrees_)
        References(i) ==
          {<<t.reference_start_node, t.cache_id>> : t \in BagToSet(tasks_[i])}
        Held == {<<1, LocalCacheId>>, <<RemoteRoot, RemoteCacheId>>}
    IN  /\ query_subtrees_[p] = left(1)
        /\ query_subtrees_[n] = right(1)
        /\ References(p) = Held
        /\ References(n) = Held
        /\ HeapSize(tasks_[p]) = 2
        /\ HeapSize(tasks_[n]) = 2
        /\ \A d \in Descriptors : SlotsAccepting(Fields, d) = {}

(***************************************************************************)
(* The retirement of query subtrees.                                       *)
(***************************************************************************)
\* The slots of the next state that hold the query subtree q.
SlotsHoldingNext(q) ==
  {k \in 1 .. Len(query_subtrees_') : query_subtrees_'[k] = q}

\* The task the step's dequeue returned is t.
StepDequeued(t) ==
  /\ DequeueReturnedTask(ret')
  /\ ret'.task_out.first = t

\* C24: a query subtree leaves the arrays, other than by being split into
\* its children, only in an untargeted DequeueTask and only if its heap was
\* empty and its remaining work exactly 0; the slot of any other subtree is
\* still there after every step, with every task that was pending in its
\* heap but the one the step's dequeue returned, so compaction discards no
\* pending task.
C24_RetiredOnlyWhenEmptyAndDone ==
  [][\A i \in 1 .. Len(query_subtrees_) :
       LET q == query_subtrees_[i]
       IN  IF SlotsHoldingNext(q) = {}
           THEN \/ SplitStep /\ i = SplitSlot
                \/ /\ ret'.op = "DequeueTask"
                   /\ HeapSize(tasks_[i]) = 0
                   /\ remaining_work_for_query_subtrees_[i] = 0
           ELSE \E k \in SlotsHoldingNext(q) :
                  \A t \in BagToSet(tasks_[i]) :
                    CopiesIn(t, tasks_'[k]) >=
                      CopiesIn(t, tasks_[i]) - (IF StepDequeued(t) THEN 1 ELSE 0)]_vars

\* An untargeted DequeueTask has retired the first slot of the frontier
\* <<2, 3>> and moved the last slot, with its pending tasks and its work not
\* done, into its place.
C24_Witness ==
  /\ ret.op = "DequeueTask"
  /\ query_subtrees_ = <<3>>
  /\ HeapSize(tasks_[1]) > 0
  /\ remaining_work_for_query_subtrees_[1] # 0

(***************************************************************************)
(* The workers of one process.                                             *)
(***************************************************************************)
\* C25: whenever a worker that received a task of the query subtree q from
\* DequeueTask, with or without the subtree lock, calls
\* push_completed_computation(q, ...) or UnlockQuerySubtree(q), the lookup
\* of (begin, count) of q finds a live slot: no dequeue of another thread
\* has retired q and no RedistributeAmongCores has replaced q by its
\* children since the worker's dequeue.
C25_DequeuedSubtreeStaysLive ==
  ("found_index" \in DOMAIN ret /\ ret.op \in {"push_completed_computation",
                                              "UnlockQuerySubtree"})
    => ret.found_index >= 0

(***************************************************************************)
(* The two forms of DequeueTask.                                           *)
(***************************************************************************)
\* C26: DequeueTask(probe_index, ...) takes a task only from the slot
\* probe_index and only when its heap is not empty and its lock is not set:
\* then the task is a top task of that heap, the heap loses it, the lock
\* becomes lock_query_subtree_in, num_remaining_tasks_ is one less and
\* nothing else changes.  Otherwise *task_out is not written and no field
\* changes.  In neither case is a slot removed or moved.
C26_TargetedDequeueFrame ==
  [][ret'.op = "DequeueTaskAt" =>
       IF DequeueReturnedTask(ret')
       THEN LET k == ret'.task_out.second + 1
                task == ret'.task_out.first
            IN  /\ k \in 1 .. Len(tasks_)
                /\ HeapSize(tasks_[k]) > 0
                /\ ~query_subtree_locks_[k]
                /\ task \in TopTasks(tasks_[k])
                /\ tasks_' = [tasks_ EXCEPT ![k] = HeapRemove(@, task)]
                /\ query_subtree_locks_' =
                     [query_subtree_locks_ EXCEPT
                        ![k] = ret'.lock_query_subtree_in]
                /\ num_remaining_tasks_' = num_remaining_tasks_ - 1
                /\ UNCHANGED <<query_subtrees_, assigned_work_,
                               remaining_work_for_query_subtrees_,
                               split_subtree_after_unlocking_,
                               remaining_global_computation_,
                               remaining_local_computation_, cache_locks>>
       ELSE /\ ret'.task_out = UnsetTaskOut
            /\ UNCHANGED fieldVars]_vars

\* A DequeueTask(probe_index, ...) has returned without a task from arrays
\* in which no slot could give one: a slot is locked with tasks pending, and
\* a slot with an empty heap and no work left, which the untargeted form
\* would remove, is still there.
C26_Witness ==
  /\ ret.op = "DequeueTaskAt"
  /\ ret.task_out = UnsetTaskOut
  /\ \A i \in 1 .. Len(tasks_) : ~CanTakeAt(Fields, i)
  /\ \E i \in 1 .. Len(tasks_) :
       query_subtree_locks_[i] /\ HeapSize(tasks_[i]) > 0
  /\ \E i \in 1 .. Len(tasks_) :
       /\ HeapSize(tasks_[i]) = 0
       /\ remaining_work_for_query_subtrees_[i] = 0

\* Thread t is inside the untargeted DequeueTask.
InDequeueTask(t) ==
  threads[t].pc \in {"DequeueTask: for", "DequeueTask: unset"}

\* C27: the untargeted DequeueTask terminates from every state it is called
\* in: every iteration of its loop either advances the probe index over
\* arrays of the same length or removes one slot and keeps the index, the
\* index never passes the end by more than one, and a thread inside the call
\* returns in the end; at the return the lock is as it was at the entry, and
\* when no task is returned *task_out is as the caller left it,
\* num_remaining_tasks_ is what it was at the entry and no slot left is
\* unlocked with tasks pending.
C27_UntargetedDequeueTerminates ==
  /\ [][\A t \in Threads :
          InDequeueTask(t) =>
            IF threads'[t].pc = "DequeueTask: for"
            THEN /\ \/ /\ threads'[t].probe_index = threads[t].probe_index + 1
                       /\ Len(tasks_') = Len(tasks_)
                    \/ /\ threads'[t].probe_index = threads[t].probe_index
                       /\ Len(tasks_') = Len(tasks_) - 1
                 /\ threads'[t].probe_index <= Len(tasks_') + 1
            ELSE IF threads'[t].pc = "DequeueTask: unset"
                 THEN threads'[t].task_out # UnsetTaskOut
                 ELSE /\ threads'[t].pc = "idle"
                      /\ HeldDepth(task_queue_lock_', t) = threads[t].depth_at_entry
                      /\ task_queue_lock_'.owner = NoThread
                      /\ ret'.op = "DequeueTask"
                      /\ ret'.task_out = threads[t].task_out
                      /\ ret'.task_out = UnsetTaskOut =>
                           /\ num_remaining_tasks_' =
                                threads[t].entered.num_remaining_tasks_
                           /\ \A i \in 1 .. Len(tasks_') : ~CanTakeAt(Fields', i)]_vars
  /\ \A t \in Threads : InDequeueTask(t) ~> (threads[t].pc = "idle")

\* A thread is at the end of the loop of a call that found two slots, both
\* with an empty heap and no work left, and has removed both: the arrays are
\* empty and no task was taken.
C27_Witness ==
  \E t \in Threads :
    /\ threads[t].pc = "DequeueTask: for"
    /\ Len(threads[t].entered.tasks_) = 2
    /\ Len(tasks_) = 0
    /\ threads[t].probe_index = 1
    /\ threads[t].task_out = UnsetTaskOut

(***************************************************************************)
(* The remaining work of the children of a split subtree.                  *)
(***************************************************************************)
\* The reference points of the tasks pending in a heap, a task counted as
\* often as it is in the heap.
PendingReferencePoints(heap) ==
  SumOver(BagToSet(heap),
          [t \in BagToSet(heap) |->
             CopiesIn(t, heap) * NodeCount(t.reference_start_node)])

\* The fields after every task pending for the query subtree q has been
\* dequeued from its slot and reported through push_completed_computation
\* with the point count of its reference node.
RECURSIVE DrainAndReport(_, _)
DrainAndReport(s, q) ==
  LET i == FindQuerySubtreeIndex_(s, NodeBegin(q), NodeCount(q))
  IN  IF HeapSize(s.tasks_[i]) = 0 THEN s
      ELSE LET task == CHOOSE t \in DequeueChoices(s.tasks_[i]) : TRUE
               reference_count_in == NodeCount(task.reference_start_node)
               taken == TakeTask(s, i, task, FALSE)
           IN  DrainAndReport(
                 push_completed_computation(
                   taken, NodeBegin(q), NodeCount(q), reference_count_in,
                   QuantityOf(NodeCount(q), reference_count_in)),
                 q)

\* C28: in every state where the slot RedistributeAmongCores would split has
\* as much remaining work as its pending tasks have reference points,
\* splitting it and then dequeuing and reporting every task of the two
\* children, with nothing else arriving, leaves both children with empty
\* heaps and remaining work 0.
C28_ChildrenFinishTheParentsWork ==
  LET p == SplitSlot
  IN  (/\ p >= 1
       /\ remaining_work_for_query_subtrees_[p] =
            PendingReferencePoints(tasks_[p]))
        => LET T == query_subtrees_[p]
               n == Len(query_subtrees_)
               split == split_subtree_(Fields, p)
               done == DrainAndReport(DrainAndReport(split, left(T)), right(T))
           IN  /\ done.query_subtrees_[p] = left(T)
               /\ done.query_subtrees_[n + 1] = right(T)
               /\ \A i \in {p, n + 1} :
                    /\ HeapSize(split.tasks_[i]) > 0
                    /\ HeapSize(done.tasks_[i]) = 0
                    /\ done.remaining_work_for_query_subtrees_[i] = 0

\* C28 witness: the left child of the root has been split and every task
\* of its two children dequeued and reported: both are in their slots with
\* empty heaps and no work left.
C28_Witness ==
  \E p \in 1 .. Len(query_subtrees_) - 1 :
    LET n == Len(query_subtrees_)
    IN  /\ query_subtrees_[p] = left(left(1))
        /\ query_subtrees_[n] = right(left(1))
        /\ \A i \in {p, n} :
             /\ HeapSize(tasks_[i]) = 0
             /\ remaining_work_for_query_subtrees_[i] = 0

\* Every worker has left its loop.
AllWorkersExited == \A t \in Threads : threads[t].pc = "exited"

\* C29: in a run of one process in which every reference subtable is
\* delivered once and every worker repeats the untargeted dequeue with the
\* subtree lock, the report, ReleaseCache and UnlockQuerySubtree, now and
\* then asking for a split, under weak fairness the run reaches a state in
\* which every task has been dequeued, num_remaining_tasks_ and
\* remaining_global_computation_ are 0, every cache lock count is 0 and
\* every worker has seen can_terminate() return true and has left its loop.
C29_WorkersFinish ==
  <>(/\ AllWorkersExited
     /\ NumTasksInHeaps = 0
     /\ num_remaining_tasks_ = 0
     /\ remaining_global_computation_ = 0
     /\ \A c \in CacheIds : cache_locks[c] = 0)

============================================================================
